---------------------------- MODULE Spec2Model ----------------------------
(***************************************************************************)
(* Model of the content-enrichment pipeline of the WeChat article writer:  *)
(*   - addIllustrationsToArticle (services/gemini.ts): planning call, one  *)
(*     image call per plan, splice of each image fragment into the HTML.   *)
(*   - splitTextForTTS / generateSpeech (services/gemini.ts): chunking of  *)
(*     the text and the concurrent per-chunk audio calls.                  *)
(* HTML documents, snippets and texts are TLA+ strings; a character is a   *)
(* string of length 1 (SubSeq(s, i, i)).                                   *)
(***************************************************************************)
EXTENDS Integers, Sequences, FiniteSets, TLC

VARIABLES
    \* ---- addIllustrationsToArticle ----
    articleHtml,    \* parameter articleHtml
    imageCount,     \* parameter imageCount
    illusPc,        \* "idle" | "planning" | "imaging" | "returned" | "raised"
    plans,          \* JSON.parse(analysisResponse.text || "[]")
    planIdx,        \* position of the for..of loop over plans (1-based)
    updatedHtml,    \* let updatedHtml
    planLog,        \* per processed plan: what became of it (history)
    lastOutcome,    \* how the latest collaborator call settled (history)
    \* ---- generateSpeech ----
    text,           \* parameter text
    speechPc,       \* "idle" | "start" | "calling" | "returned" | "raised"
    segments,       \* splitTextForTTS(text, 300)
    callLog,        \* per segment: "pending", "skipped" or the outcome of its audio call
    results,        \* per segment: its promise: Pending, Rejected, Null or a blob
    arrived,        \* indexes of the segments that produced a blob, by completion time
    blobs,          \* the returned Blob[]
    \* ---- splitTextForTTS, called on its own ----
    ttsText,        \* parameter text
    ttsLimit,       \* parameter limit
    splitPc,        \* "idle" | "called" | "returned"
    ttsSegments,    \* the returned string[]
    \* ---- formatHtmlForWeChat, called on its own and on its output ----
    fmtHtml,        \* parameter html of the first call
    fmtPc,          \* "idle" | "called" | "once" | "twice"
    formattedOnce,  \* formatHtmlForWeChat(fmtHtml)
    formattedTwice, \* formatHtmlForWeChat(formattedOnce)
    \* ---- the App component ----
    topic,            \* useState: the topic typed by the user
    loading,          \* useState: handleGenerate is running
    generatedTitle,   \* useState
    generatedBody,    \* useState: the HTML shown in the article panel
    generatingImages, \* useState: handleAutoGenerateImages is running
    generatingAudio,  \* useState: handleGenerateAudio is running
    audioUrls,        \* useState: the audio parts offered for download
    articlePc,        \* generateArticle: "idle" | "calling" | "returned" | "raised"
    articleOutcome,   \* how the text-generation call settled (history)
    articleResult,    \* the string generateArticle returned (history)
    imageRuns,        \* number of image runs started (history)
    articleNo,        \* number of handleGenerate calls started (history)
    shownArticle,     \* which article generatedBody derives from, 0: none (history)
    imagesArticle,    \* which article the image run in flight read (history)
    audioArticle      \* which article the audio run or audioUrls read (history)

illusVars  == <<articleHtml, imageCount, illusPc, plans, planIdx, updatedHtml,
                planLog, lastOutcome>>
speechVars == <<text, speechPc, segments, callLog, results, arrived, blobs>>
splitVars  == <<ttsText, ttsLimit, splitPc, ttsSegments>>
formatVars == <<fmtHtml, fmtPc, formattedOnce, formattedTwice>>
appVars    == <<topic, loading, generatedTitle, generatedBody, generatingImages,
                generatingAudio, audioUrls, articlePc, articleOutcome, articleResult,
                imageRuns, articleNo, shownArticle, imagesArticle,
                audioArticle>>
vars       == <<illusVars, speechVars, splitVars, formatVars, appVars>>

\* What a step of one function leaves alone: the state of the others.
exceptIllus  == <<speechVars, splitVars, formatVars, appVars>>
exceptSpeech == <<illusVars, splitVars, formatVars, appVars>>
exceptSplit  == <<illusVars, speechVars, formatVars, appVars>>
exceptFormat == <<illusVars, speechVars, splitVars, appVars>>
exceptApp    == <<speechVars, splitVars, formatVars>>

\* The component is not mounted: its state has the initial values of its
\* useState hooks and no call is in flight.
AppIdle ==
    /\ topic = ""
    /\ loading = FALSE
    /\ generatedTitle = ""
    /\ generatedBody = ""
    /\ generatingImages = FALSE
    /\ generatingAudio = FALSE
    /\ audioUrls = <<>>
    /\ articlePc = "idle"
    /\ articleOutcome = "none"
    /\ articleResult = ""
    /\ imageRuns = 0
    /\ articleNo = 0
    /\ shownArticle = 0
    /\ imagesArticle = 0
    /\ audioArticle = 0

\* formatHtmlForWeChat is not running on its own.
FormatIdle ==
    /\ fmtHtml = ""
    /\ fmtPc = "idle"
    /\ formattedOnce = ""
    /\ formattedTwice = ""

\* splitTextForTTS is not running on its own.
SplitIdle ==
    /\ ttsText = ""
    /\ ttsLimit = 0
    /\ splitPc = "idle"
    /\ ttsSegments = <<>>

-----------------------------------------------------------------------------
(***************************************************************************)
(* Strings                                                                 *)
(***************************************************************************)

CharAt(s, i) == SubSeq(s, i, i)

From(s, i) == SubSeq(s, i, Len(s))

UpperAZ == "ABCDEFGHIJKLMNOPQRSTUVWXYZ"
LowerAZ == "abcdefghijklmnopqrstuvwxyz"

\* Canonicalisation of one character under the regular expression flag 'i'.
ToLower ==
    [c \in {CharAt(UpperAZ, k) : k \in 1..26} |->
        LET k == CHOOSE j \in 1..26 : CharAt(UpperAZ, j) = c
        IN  CharAt(LowerAZ, k)]

UpperChars == DOMAIN ToLower

LowerChar(c) == IF c \in UpperChars THEN ToLower[c] ELSE c

RECURSIVE LowerStr(_)
LowerStr(s) ==
    IF Len(s) = 0 THEN ""
    ELSE IF Len(s) = 1 THEN LowerChar(s)
    ELSE LET h == Len(s) \div 2
         IN  LowerStr(SubSeq(s, 1, h)) \o LowerStr(SubSeq(s, h + 1, Len(s)))

\* White space of String.prototype.trim (the characters the model uses).
IsSpace(c) == c \in {" ", "\n", "\t"}

RECURSIVE TrimStart(_)
TrimStart(s) ==
    IF Len(s) > 0 /\ IsSpace(CharAt(s, 1)) THEN TrimStart(From(s, 2)) ELSE s

RECURSIVE TrimEnd(_)
TrimEnd(s) ==
    IF Len(s) > 0 /\ IsSpace(CharAt(s, Len(s)))
    THEN TrimEnd(SubSeq(s, 1, Len(s) - 1)) ELSE s

\* String.prototype.substring(start, end) for 0 <= start <= end: positions are
\* 0-based, end is exclusive and clamped to the length.
Substring(s, start, end) ==
    SubSeq(s, start + 1, IF end > Len(s) THEN Len(s) ELSE end)

\* String.prototype.trim
Trim(s) == TrimEnd(TrimStart(s))

\* Least element of a non-empty set of integers.
MinOf(S) == CHOOSE i \in S : \A j \in S : i <= j

\* String.prototype.indexOf, 1-based; 0 when s does not occur in doc.
IndexOf(doc, s) ==
    LET hits == {i \in 1..(Len(doc) - Len(s) + 1) : SubSeq(doc, i, i + Len(s) - 1) = s}
    IN  IF hits = {} THEN 0 ELSE MinOf(hits)

\* String.prototype.includes
Includes(doc, s) == IndexOf(doc, s) # 0

\* Index of the first character c at or after position i; 0 when there is none.
NextChar(s, c, i) ==
    LET hits == {k \in i..Len(s) : CharAt(s, k) = c}
    IN  IF hits = {} THEN 0 ELSE MinOf(hits)

\* Number of (possibly overlapping) occurrences of s in doc.
Occurrences(doc, s) ==
    Cardinality({i \in 1..(Len(doc) - Len(s) + 1) : SubSeq(doc, i, i + Len(s) - 1) = s})

-----------------------------------------------------------------------------
(***************************************************************************)
(* Regular expressions and String.prototype.replace, as far as             *)
(* addIllustrationsToArticle uses them                                     *)
(***************************************************************************)

\* The characters of the class in snippet.replace(/[.*+?^${}()|[\]\\]/g, '\\$&').
RegExpSpecials == {".", "*", "+", "?", "^", "$", "{", "}", "(", ")", "|", "[", "]", "\\"}

\* snippet.replace(/[.*+?^${}()|[\]\\]/g, '\\$&'): a backslash before every special.
RECURSIVE EscapeRegExp(_)
EscapeRegExp(s) ==
    IF Len(s) = 0 THEN ""
    ELSE IF Len(s) = 1 THEN (IF s \in RegExpSpecials THEN "\\" \o s ELSE s)
    ELSE LET h == Len(s) \div 2
         IN  EscapeRegExp(SubSeq(s, 1, h)) \o EscapeRegExp(SubSeq(s, h + 1, Len(s)))

\* The atoms of a pattern source made of literals, escapes and dots, under
\* the flag 'i': "\c" is the literal c, an unescaped "." is the wildcard, any
\* other character is itself; literals are kept canonicalised.
RECURSIVE PatternAtoms(_)
PatternAtoms(src) ==
    IF Len(src) = 0 THEN <<>>
    ELSE IF CharAt(src, 1) = "\\" /\ Len(src) >= 2
         THEN <<[any |-> FALSE, lit |-> LowerChar(CharAt(src, 2))]>>
              \o PatternAtoms(From(src, 3))
    ELSE IF CharAt(src, 1) = "."
         THEN <<[any |-> TRUE, lit |-> "."]>> \o PatternAtoms(From(src, 2))
    ELSE <<[any |-> FALSE, lit |-> LowerChar(CharAt(src, 1))]>>
         \o PatternAtoms(From(src, 2))

\* One atom against one character, under the flag 'i'.
AtomMatches(atom, c) ==
    IF atom.any THEN c # "\n" ELSE atom.lit = LowerChar(c)

AtomsMatchAt(doc, i, atoms) ==
    /\ i + Len(atoms) - 1 <= Len(doc)
    /\ \A k \in 1..Len(atoms) : AtomMatches(atoms[k], CharAt(doc, i + k - 1))

\* Fault variant of ParagraphMatchEnd: the match ends with the snippet, the
\* tail [^<]*</p> is tested but left out of the group.
ParagraphMatchEndAtSnippet(doc, i, atoms) ==
    IF ~AtomsMatchAt(doc, i, atoms) THEN 0
    ELSE LET q == NextChar(doc, "<", i + Len(atoms))
         IN  IF q # 0 /\ q + 3 <= Len(doc) /\ LowerStr(SubSeq(doc, q, q + 3)) = "</p>"
             THEN i + Len(atoms) - 1 ELSE 0

\* End of the match of  <atoms>[^<]*</p>  (flag 'i') that starts at i, or 0.
\* [^<]* runs up to the next "<", and that "<" has to open "</p>".
ParagraphMatchEnd(doc, i, atoms) ==
    IF ~AtomsMatchAt(doc, i, atoms) THEN 0
    ELSE LET q == NextChar(doc, "<", i + Len(atoms))
         IN  IF q # 0 /\ q + 3 <= Len(doc) /\ LowerStr(SubSeq(doc, q, q + 3)) = "</p>"
             THEN q + 3 ELSE 0

\* new RegExp('(' + escapedSnippet + '[^<]*</p>)', 'i') on doc: the leftmost match
\* as [from, to], or [from |-> 0, to |-> 0] when regex.test(doc) is false.
RegexParagraph(doc, escapedSnippet) ==
    LET atoms == PatternAtoms(escapedSnippet)
        hits  == {i \in 1..(Len(doc) + 1) : ParagraphMatchEnd(doc, i, atoms) # 0}
    IN  IF hits = {} THEN [from |-> 0, to |-> 0]
        ELSE LET i == MinOf(hits)
             IN  [from |-> i, to |-> ParagraphMatchEnd(doc, i, atoms)]

Digits == "123456789"

\* GetSubstitution: the replacement string of String.prototype.replace with its
\* $-patterns expanded: $$, $&, $' and $n. groups are the captures of the match
\* (none for a string pattern). The pattern "$ backquote" (the text before the
\* match) is left out: no string of the model holds a backquote.
RECURSIVE ExpandReplacement(_, _, _, _, _)
ExpandReplacement(repl, matched, before, after, groups) ==
    LET p == NextChar(repl, "$", 1)
    IN  IF p = 0 \/ p = Len(repl) THEN repl
        ELSE LET c    == CharAt(repl, p + 1)
                 d    == IndexOf(Digits, c)
                 head == SubSeq(repl, 1, p - 1)
                 rest == From(repl, p + 2)
             IN  IF c = "$" THEN
                     head \o "$" \o ExpandReplacement(rest, matched, before, after, groups)
                 ELSE IF c = "&" THEN
                     head \o matched \o ExpandReplacement(rest, matched, before, after, groups)
                 ELSE IF c = "'" THEN
                     head \o after \o ExpandReplacement(rest, matched, before, after, groups)
                 ELSE IF d # 0 /\ d <= Len(groups) THEN
                     head \o groups[d] \o ExpandReplacement(rest, matched, before, after, groups)
                 ELSE
                     head \o "$" \o
                     ExpandReplacement(From(repl, p + 1), matched, before, after, groups)

\* doc.replace(pattern, repl) once the first match from..to of the pattern is
\* known: the match is replaced by the expansion of repl.
ReplaceRange(doc, from, to, repl, groups) ==
    LET before == SubSeq(doc, 1, from - 1)
        after  == From(doc, to + 1)
    IN  before \o ExpandReplacement(repl, SubSeq(doc, from, to), before, after, groups)
               \o after

-----------------------------------------------------------------------------
(***************************************************************************)
(* addIllustrationsToArticle                                               *)
(***************************************************************************)

\* Longest list of plans the planning call returns in the model.
MaxPlans == 3

\* Values of the parameter imageCount: its default, and three images.
ImageCounts == {1, 3}

\* Length of the prefix tried by the last step of the ladder, and the length
\* it has to exceed.
ShortSnippetLen == 15
ShortSnippetMin == 10

\* The base64 payload returned by the image call of the k-th plan.
Base64Of(k) == "iVBOR" \o CharAt(Digits, k)

\* const imgTag: the figure fragment for one payload. Each indentation run
\* is kept as a newline and one blank, the img style is cut after its
\* second property.
ImgTag(base64Image) ==
    "\n <figure style=\"margin: 20px 0; text-align: center;\">"
    \o "\n <img src=\"data:image/jpeg;base64," \o base64Image
    \o "\" style=\"display: block; width: 100%;\" alt=\"AI\" />"
    \o "\n </figure>\n "

\* if (plan.contextSnippet): the property is present and not the empty string.
HasSnippet(plan) == "contextSnippet" \in DOMAIN plan /\ plan.contextSnippet # ""

\* Fault variant of Locate: the ladder goes from its first step to the third.
LocateWithoutStep2(html, contextSnippet) ==
    LET snippet        == Trim(contextSnippet)
        escapedSnippet == EscapeRegExp(snippet)
        shortSnippet   == Substring(snippet, 0, ShortSnippetLen)
        m              == RegexParagraph(html, escapedSnippet)
        j              == IndexOf(html, shortSnippet)
    IN  IF m.from # 0 THEN [step |-> "paragraph", from |-> m.from, to |-> m.to]
        ELSE IF Len(shortSnippet) > ShortSnippetMin /\ j # 0
             THEN [step |-> "prefix", from |-> j, to |-> j + Len(shortSnippet) - 1]
        ELSE [step |-> "notfound", from |-> 0, to |-> 0]

\* Fault variant of Locate: the ladder ends after its second step.
LocateNoPrefix(html, contextSnippet) ==
    LET snippet        == Trim(contextSnippet)
        escapedSnippet == EscapeRegExp(snippet)
        m              == RegexParagraph(html, escapedSnippet)
        i              == IndexOf(html, snippet)
    IN  IF m.from # 0 THEN [step |-> "paragraph", from |-> m.from, to |-> m.to]
        ELSE IF i # 0 THEN [step |-> "snippet", from |-> i, to |-> i + Len(snippet) - 1]
        ELSE [step |-> "notfound", from |-> 0, to |-> 0]

\* The anchor of a snippet in html, as the ladder of the inline branch finds
\* it: the step that places the fragment and the matched range from..to.
\*   "paragraph"  regex.test(updatedHtml): snippet, [^<]*, </p>
\*   "snippet"    updatedHtml.includes(snippet)
\*   "prefix"     shortSnippet.length > 10 && updatedHtml.includes(shortSnippet)
\*   "notfound"   none of them
Locate(html, contextSnippet) ==
    LET snippet        == Trim(contextSnippet)
        escapedSnippet == EscapeRegExp(snippet)
        shortSnippet   == Substring(snippet, 0, ShortSnippetLen)
        m              == RegexParagraph(html, escapedSnippet)
        i              == IndexOf(html, snippet)
        j              == IndexOf(html, shortSnippet)
    IN  IF m.from # 0 THEN [step |-> "paragraph", from |-> m.from, to |-> m.to]
        ELSE IF i # 0 THEN [step |-> "snippet", from |-> i, to |-> i + Len(snippet) - 1]
        ELSE IF Len(shortSnippet) > ShortSnippetMin /\ j # 0
             THEN [step |-> "prefix", from |-> j, to |-> j + Len(shortSnippet) - 1]
        ELSE [step |-> "notfound", from |-> 0, to |-> 0]

\* Fault variant of InsertAt: step 2 puts the fragment before the snippet.
InsertAtBeforeSnippet(html, anchor, contextSnippet, imgTag) ==
    LET snippet      == Trim(contextSnippet)
        shortSnippet == Substring(snippet, 0, ShortSnippetLen)
        matched      == SubSeq(html, anchor.from, anchor.to)
    IN  CASE anchor.step = "paragraph" ->
               ReplaceRange(html, anchor.from, anchor.to, "$1" \o imgTag, <<matched>>)
          [] anchor.step = "snippet" ->
               ReplaceRange(html, anchor.from, anchor.to, imgTag \o snippet, <<>>)
          [] anchor.step = "prefix" ->
               ReplaceRange(html, anchor.from, anchor.to, shortSnippet \o imgTag, <<>>)
          [] OTHER -> html

\* Fault variant of InsertAt: a snippet that is not found falls back to the
\* front of the document.
InsertAtNotFoundPrepends(html, anchor, contextSnippet, imgTag) ==
    LET snippet      == Trim(contextSnippet)
        shortSnippet == Substring(snippet, 0, ShortSnippetLen)
        matched      == SubSeq(html, anchor.from, anchor.to)
    IN  CASE anchor.step = "paragraph" ->
               ReplaceRange(html, anchor.from, anchor.to, "$1" \o imgTag, <<matched>>)
          [] anchor.step = "snippet" ->
               ReplaceRange(html, anchor.from, anchor.to, snippet \o imgTag, <<>>)
          [] anchor.step = "prefix" ->
               ReplaceRange(html, anchor.from, anchor.to, shortSnippet \o imgTag, <<>>)
          [] OTHER -> imgTag \o html

\* The replace call of the branch the ladder took, on the range it matched:
\*   updatedHtml.replace(regex, "$1" + imgTag)
\*   updatedHtml.replace(snippet, snippet + imgTag)
\*   updatedHtml.replace(shortSnippet, shortSnippet + imgTag)
InsertAt(html, anchor, contextSnippet, imgTag) ==
    LET snippet      == Trim(contextSnippet)
        shortSnippet == Substring(snippet, 0, ShortSnippetLen)
        matched      == SubSeq(html, anchor.from, anchor.to)
    IN  CASE anchor.step = "paragraph" ->
               ReplaceRange(html, anchor.from, anchor.to, "$1" \o imgTag, <<matched>>)
          [] anchor.step = "snippet" ->
               ReplaceRange(html, anchor.from, anchor.to, snippet \o imgTag, <<>>)
          [] anchor.step = "prefix" ->
               ReplaceRange(html, anchor.from, anchor.to, shortSnippet \o imgTag, <<>>)
          [] OTHER -> html

\* Fault variant of InsertIllustration: the cover is appended to the body.
InsertIllustrationCoverAppended(html, plan, imgTag) ==
    IF plan.isCover THEN [html |-> html \o imgTag, fate |-> "cover"]
    ELSE IF HasSnippet(plan) THEN
        LET anchor == Locate(html, plan.contextSnippet)
        IN  [html |-> InsertAt(html, anchor, plan.contextSnippet, imgTag),
             fate |-> anchor.step]
    ELSE [html |-> html, fate |-> "nosnippet"]

\* Fault variant of InsertIllustration: a cover plan that has a snippet is
\* placed by the ladder.
InsertIllustrationSnippetFirst(html, plan, imgTag) ==
    IF HasSnippet(plan) THEN
        LET anchor == Locate(html, plan.contextSnippet)
        IN  [html |-> InsertAt(html, anchor, plan.contextSnippet, imgTag),
             fate |-> anchor.step]
    ELSE IF plan.isCover THEN [html |-> imgTag \o html, fate |-> "cover"]
    ELSE [html |-> html, fate |-> "nosnippet"]

\* if (base64Image) { ... }: the new updatedHtml for one plan whose image
\* call returned a payload, and the branch that produced it.
InsertIllustration(html, plan, imgTag) ==
    IF plan.isCover THEN [html |-> imgTag \o html, fate |-> "cover"]
    ELSE IF HasSnippet(plan) THEN
        LET anchor == Locate(html, plan.contextSnippet)
        IN  [html |-> InsertAt(html, anchor, plan.contextSnippet, imgTag),
             fate |-> anchor.step]
    ELSE [html |-> html, fate |-> "nosnippet"]

\* What the image call of one plan can do: return a payload, reject, or
\* return a response without inlineData.
ImageOutcomes == {"image", "throws", "nopayload"}

\* Fault variant of OnImgError: the catch of the loop body rethrows.
RethrowOnImgError == "rethrow"

\* catch (imgError) { console.error(...) }: the loop goes on with the next plan.
OnImgError == "continue"

\* Fault variant of ProcessPlan: every fragment is spliced into the article
\* as it was passed in, as splices started together would do.
ProcessPlanOnSnapshot(html, plan, k, outcome) ==
    IF outcome = "image" THEN InsertIllustration(articleHtml, plan, ImgTag(Base64Of(k)))
    ELSE [html |-> html, fate |-> "noimage"]

\* Fault variant of ProcessPlan: a plan without image resets updatedHtml to
\* the article, dropping the fragments placed before it.
ProcessPlanUndoOnFailure(html, plan, k, outcome) ==
    IF outcome = "image" THEN InsertIllustration(html, plan, ImgTag(Base64Of(k)))
    ELSE [html |-> articleHtml, fate |-> "noimage"]

\* The body of the for..of loop for the k-th plan: the new updatedHtml, and
\* what became of the plan ("noimage" when its image call gave no payload).
ProcessPlan(html, plan, k, outcome) ==
    IF outcome = "image" THEN InsertIllustration(html, plan, ImgTag(Base64Of(k)))
    ELSE [html |-> html, fate |-> "noimage"]

\* How the planning call can fail before a list of plans exists: the call
\* rejects, or its text is not JSON. A response without text is parsed as
\* "[]" (analysisResponse.text || "[]"): it is the empty list of PlanLists.
PlanFailures == {"callfailed", "badjson"}

\* Fault variant of PlansRejected: the check of the plans is missing.
PlansNeverRejected(parsed) == FALSE

\* if (!plans || plans.length === 0) throw new Error(...)
PlansRejected(parsed) == Len(parsed) = 0

PlacedFates == {"cover", "paragraph", "snippet", "prefix"}

\* ---- inputs ----

ArticleTwoParagraphs == "<p>Alpha beta gamma.</p><p>Delta epsilon.</p>"

ArticleStyled ==
    "<h2 style=\"text-align: center\">center stage</h2><p>Alpha <b>beta</b> gamma.</p>"

Articles == {ArticleTwoParagraphs, ArticleStyled}

ContextSnippets == {"Alpha beta gamma.", "beta", "center"}

\* The plans the planning call may return: the cover, or an inline plan for
\* one of the snippets.
PlanChoices ==
    {[isCover |-> TRUE]}
    \cup {[isCover |-> FALSE, contextSnippet |-> c] : c \in ContextSnippets}

PlanLists == UNION {[1..n -> PlanChoices] : n \in 0..MaxPlans}

\* ---- actions ----

\* The planning call settles with a failure: the outer catch rethrows.
AnalysisFails ==
    /\ illusPc = "planning"
    /\ \E failure \in PlanFailures :
         /\ illusPc' = "raised"
         /\ lastOutcome' = failure
    /\ UNCHANGED <<articleHtml, imageCount, plans, planIdx, updatedHtml, planLog>>
    /\ UNCHANGED exceptIllus

\* The planning call settles with a JSON array, one of lists: throw when it
\* is rejected, else start the loop and issue the image call of the first
\* plan (a loop over no plan returns at once).
PlansArrive(lists) ==
    /\ illusPc = "planning"
    /\ \E parsed \in lists :
         /\ plans' = parsed
         /\ lastOutcome' = "plans"
         /\ IF PlansRejected(parsed)
            THEN /\ illusPc' = "raised"
                 /\ UNCHANGED <<planIdx, updatedHtml>>
            ELSE /\ illusPc' = IF Len(parsed) = 0 THEN "returned" ELSE "imaging"
                 /\ planIdx' = 1
                 /\ updatedHtml' = articleHtml
    /\ UNCHANGED <<articleHtml, imageCount, planLog>>
    /\ UNCHANGED exceptIllus

AnalysisReturns == PlansArrive(PlanLists)

\* Fault variant of ImageSettles: an image call that gave no payload is
\* issued again for the same plan.
ImageSettlesRetrying ==
    /\ illusPc = "imaging"
    /\ \E outcome \in ImageOutcomes :
         LET done == ProcessPlan(updatedHtml, plans[planIdx], planIdx, outcome)
         IN  /\ planLog' = Append(planLog, done.fate)
             /\ lastOutcome' = outcome
             /\ IF outcome # "image"
                THEN UNCHANGED <<illusPc, planIdx, updatedHtml>>
                ELSE /\ updatedHtml' = done.html
                     /\ planIdx' = planIdx + 1
                     /\ illusPc' = IF planIdx = Len(plans) THEN "returned" ELSE "imaging"
    /\ UNCHANGED <<articleHtml, imageCount, plans>>
    /\ UNCHANGED exceptIllus

\* The image call of plans[planIdx] settles: the rest of the loop body, then
\* either the next plan's image call is issued or updatedHtml is returned.
ImageSettles ==
    /\ illusPc = "imaging"
    /\ \E outcome \in ImageOutcomes :
         LET done == ProcessPlan(updatedHtml, plans[planIdx], planIdx, outcome)
         IN  /\ planLog' = Append(planLog, done.fate)
             /\ lastOutcome' = outcome
             /\ IF outcome = "throws" /\ OnImgError # "continue"
                THEN /\ illusPc' = "raised"
                     /\ UNCHANGED <<planIdx, updatedHtml>>
                ELSE /\ updatedHtml' = done.html
                     /\ planIdx' = planIdx + 1
                     /\ illusPc' = IF planIdx = Len(plans) THEN "returned" ELSE "imaging"
    /\ UNCHANGED <<articleHtml, imageCount, plans>>
    /\ UNCHANGED exceptIllus

SpeechIdle ==
    /\ text = ""
    /\ speechPc = "idle"
    /\ segments = <<>>
    /\ callLog = <<>>
    /\ results = <<>>
    /\ arrived = <<>>
    /\ blobs = <<>>

InitIllus ==
    /\ articleHtml \in Articles
    /\ imageCount \in ImageCounts
    /\ illusPc = "planning"
    /\ plans = <<>>
    /\ planIdx = 0
    /\ updatedHtml = ""
    /\ planLog = <<>>
    /\ lastOutcome = "none"
    /\ SpeechIdle
    /\ SplitIdle
    /\ FormatIdle
    /\ AppIdle

NextIllus == AnalysisFails \/ AnalysisReturns \/ ImageSettles

SpecIllus == InitIllus /\ [][NextIllus]_vars

\* ---- runs on snippets that exercise the whole ladder ----

\* Longest list of plans in these runs.
LadderMaxPlans == 2

\* A snippet of 25 characters of which the first 15, "Alpha beta gamm", occur
\* in the two-paragraph article and the first 16 do not.
SnippetPrefix15 == "Alpha beta gammo rays now"

\* A snippet of 25 characters of which the first 8, "Alpha be", occur in the
\* two-paragraph article and the first 9 do not.
SnippetPrefix8 == "Alpha bears eat honey now"

\* The plans of these runs: the cover without and with a snippet, and inline
\* plans for a snippet inside a paragraph (with blanks around it) and for the
\* two snippets of 25 characters.
LadderPlanChoices ==
    {[isCover |-> TRUE], [isCover |-> TRUE, contextSnippet |-> "beta"]}
    \cup {[isCover |-> FALSE, contextSnippet |-> c] :
            c \in {" Delta epsilon. ", SnippetPrefix15, SnippetPrefix8}}

LadderPlanLists == UNION {[1..n -> LadderPlanChoices] : n \in 0..LadderMaxPlans}

LadderAnalysisReturns == PlansArrive(LadderPlanLists)

NextLadder == AnalysisFails \/ LadderAnalysisReturns \/ ImageSettles

SpecLadder == InitIllus /\ [][NextLadder]_vars

-----------------------------------------------------------------------------
(***************************************************************************)
(* splitTextForTTS                                                         *)
(***************************************************************************)

\* The character class of the two regular expressions: . ? ! ; and the line
\* feed. Its four full-width members (ideographic full stop, full-width
\* ! ? ;) are outside the character set of the model.
Terminators == {".", "?", "!", ";", "\n"}

IsTerminator(c) == c \in Terminators

\* Last index of the run of characters that starts at i: terminators only,
\* or no terminator at all.
RunEnd(str, i) ==
    LET t     == IsTerminator(CharAt(str, i))
        stops == {k \in (i + 1)..Len(str) : IsTerminator(CharAt(str, k)) # t}
    IN  IF stops = {} THEN Len(str) ELSE MinOf(stops) - 1

\* Some character of part is a terminator.
HasTerminatorChar(part) == \E k \in 1..Len(part) : CharAt(part, k) \in Terminators

RECURSIVE Runs(_, _)
Runs(str, i) ==
    IF i > Len(str) THEN <<>>
    ELSE <<SubSeq(str, i, RunEnd(str, i))>> \o Runs(str, RunEnd(str, i) + 1)

\* Fault variant of RawParts: the separators are dropped (no capturing group).
RawPartsWithoutSeparators(str) ==
    IF Len(str) = 0 THEN <<"">>
    ELSE LET runs == (IF IsTerminator(CharAt(str, 1)) THEN <<"">> ELSE <<>>)
                     \o Runs(str, 1)
                     \o (IF IsTerminator(CharAt(str, Len(str))) THEN <<"">> ELSE <<>>)
         IN  SelectSeq(runs, LAMBDA part : ~HasTerminatorChar(part))

\* text.split(/([terminators]+)/): the separators are kept (capturing group),
\* and an empty string stands before a leading and after a trailing separator.
RawParts(str) ==
    IF Len(str) = 0 THEN <<"">>
    ELSE (IF IsTerminator(CharAt(str, 1)) THEN <<"">> ELSE <<>>)
         \o Runs(str, 1)
         \o (IF IsTerminator(CharAt(str, Len(str))) THEN <<"">> ELSE <<>>)

\* /[terminators]+/.test(part)
HasTerminator(part) == \E k \in 1..Len(part) : IsTerminator(CharAt(part, k))

\* The first loop: parts are appended to currentBuffer, which is pushed as a
\* sentence after each separator; the rest is pushed if it is not blank.
RECURSIVE CollectSentences(_, _, _, _)
CollectSentences(rawParts, i, currentBuffer, sentences) ==
    IF i > Len(rawParts)
    THEN IF Trim(currentBuffer) # "" THEN Append(sentences, currentBuffer) ELSE sentences
    ELSE LET buffer == currentBuffer \o rawParts[i]
         IN  IF HasTerminator(rawParts[i])
             THEN CollectSentences(rawParts, i + 1, "", Append(sentences, buffer))
             ELSE CollectSentences(rawParts, i + 1, buffer, sentences)

\* Fault variant of CollectSegments: the limit is not looked at, every
\* sentence is added to the one segment.
RECURSIVE CollectSegmentsNoLimit(_, _, _, _, _)
CollectSegmentsNoLimit(sentences, i, currentSegment, segs, limit) ==
    IF i > Len(sentences)
    THEN IF Trim(currentSegment) # "" THEN Append(segs, currentSegment) ELSE segs
    ELSE CollectSegmentsNoLimit(sentences, i + 1, currentSegment \o sentences[i], segs, limit)

\* Fault variant of CollectSegments: segments are pushed without the test
\* currentSegment.trim().
RECURSIVE CollectSegmentsPushBlank(_, _, _, _, _)
CollectSegmentsPushBlank(sentences, i, currentSegment, segs, limit) ==
    IF i > Len(sentences)
    THEN Append(segs, currentSegment)
    ELSE LET sent == sentences[i]
         IN  IF Len(currentSegment) + Len(sent) > limit
             THEN CollectSegmentsPushBlank(sentences, i + 1, sent,
                      Append(segs, currentSegment), limit)
             ELSE CollectSegmentsPushBlank(sentences, i + 1, currentSegment \o sent,
                      segs, limit)

\* The second loop: sentences are added to currentSegment while it stays
\* within limit; a sentence that does not fit starts the next segment, and the
\* segment before it is pushed unless it is blank.
RECURSIVE CollectSegments(_, _, _, _, _)
CollectSegments(sentences, i, currentSegment, segs, limit) ==
    IF i > Len(sentences)
    THEN IF Trim(currentSegment) # "" THEN Append(segs, currentSegment) ELSE segs
    ELSE LET sent == sentences[i]
         IN  IF Len(currentSegment) + Len(sent) > limit
             THEN CollectSegments(sentences, i + 1, sent,
                      IF Trim(currentSegment) # "" THEN Append(segs, currentSegment)
                      ELSE segs,
                      limit)
             ELSE CollectSegments(sentences, i + 1, currentSegment \o sent, segs, limit)

splitTextForTTS(str, limit) ==
    CollectSegments(CollectSentences(RawParts(str), 1, "", <<>>), 1, "", <<>>, limit)

-----------------------------------------------------------------------------
(***************************************************************************)
(* generateSpeech                                                          *)
(***************************************************************************)

\* splitTextForTTS(text, 300)
SpeechLimit == 300

\* Most sentences of a text of the model, and the length of a long sentence
\* (two long sentences do not fit one segment).
MaxChunks == 5
LongSentenceLen == 200

\* The values of a segment's promise: not settled yet, rejected, fulfilled
\* with null, or fulfilled with a blob.
Pending  == [is |-> "pending"]
Rejected == [is |-> "rejected"]
Null     == [is |-> "null"]

\* new Blob([wavBytes], {type: 'audio/wav'}) for the audio of one segment;
\* segment is the index of the segment in segments.
Blob(segment, segmentText) ==
    [is |-> "blob", segment |-> segment, spoken |-> segmentText]

\* What the audio call of one segment can do: return audio, reject, or
\* return a response without inlineData.
AudioOutcomes == {"audio", "throws", "nopayload"}

\* Fault variant of OnSegmentError: the segment's catch rethrows, so that its
\* promise rejects.
RejectOnSegmentError == Rejected

\* catch (e) { console.error(...); return null; } of one segment.
OnSegmentError == Null

\* The value the promise of segment i settles with.
SettleSegment(i, segmentText, outcome) ==
    CASE outcome = "audio"     -> Blob(i, segmentText)
      [] outcome = "nopayload" -> Null
      [] OTHER                 -> OnSegmentError

\* results.forEach(res => { if (res) blobs.push(res) })
RECURSIVE CollectBlobs(_, _)
CollectBlobs(res, i) ==
    IF i > Len(res) THEN <<>>
    ELSE (IF res[i].is = "blob" THEN <<res[i]>> ELSE <<>>) \o CollectBlobs(res, i + 1)

\* Fault variant of SpeechReturn: the blobs are pushed as the calls complete.
SpeechReturnByArrival(res, byArrival) ==
    [pc |-> "returned", blobs |-> [k \in 1..Len(byArrival) |-> res[byArrival[k]]]]

\* Fault variant of SpeechReturn: an empty result is thrown as an error.
SpeechReturnThrowsOnEmpty(res, byArrival) ==
    IF CollectBlobs(res, 1) = <<>> THEN [pc |-> "raised", blobs |-> <<>>]
    ELSE [pc |-> "returned", blobs |-> CollectBlobs(res, 1)]

\* The statements after "await Promise.all(segmentPromises)": how the call
\* ends when every promise is fulfilled. byArrival lists the segments with a
\* blob in the order their calls completed.
SpeechReturn(res, byArrival) == [pc |-> "returned", blobs |-> CollectBlobs(res, 1)]

\* catch (error) { console.error(...); return []; } of generateSpeech.
OnSpeechError == [pc |-> "returned", blobs |-> <<>>]

\* ---- inputs ----

RECURSIVE Repeat(_, _)
Repeat(c, n) ==
    IF n = 0 THEN ""
    ELSE IF n = 1 THEN c
    ELSE Repeat(c, n \div 2) \o Repeat(c, n - (n \div 2))

\* The k-th long sentence: one letter repeated, then a full stop.
LongSentence(k) == Repeat(CharAt(LowerAZ, k), LongSentenceLen - 1) \o "."

RECURSIVE LongText(_)
LongText(n) == IF n = 0 THEN "" ELSE LongText(n - 1) \o LongSentence(n)

Texts == {LongText(n) : n \in 0..MaxChunks} \cup {" \n ", "Hi there. Bye!\nOk"}

\* ---- actions ----

\* The synchronous start of generateSpeech: the text is split and every
\* segment's async function runs up to its await; a blank segment returns
\* null at once.
SpeechStart ==
    /\ speechPc = "start"
    /\ LET segs == splitTextForTTS(text, SpeechLimit)
       IN  /\ segments' = segs
           /\ callLog' = [i \in 1..Len(segs) |->
                             IF Trim(segs[i]) = "" THEN "skipped" ELSE "pending"]
           /\ results' = [i \in 1..Len(segs) |->
                             IF Trim(segs[i]) = "" THEN Null ELSE Pending]
    /\ speechPc' = "calling"
    /\ UNCHANGED <<text, arrived, blobs>>
    /\ UNCHANGED exceptSpeech

\* The audio call of one segment settles, in any order among the segments.
AudioSettles ==
    /\ speechPc = "calling"
    /\ \E i \in 1..Len(segments), outcome \in AudioOutcomes :
         /\ callLog[i] = "pending"
         /\ callLog' = [callLog EXCEPT ![i] = outcome]
         /\ results' = [results EXCEPT ![i] = SettleSegment(i, segments[i], outcome)]
         /\ arrived' = IF outcome = "audio" THEN Append(arrived, i) ELSE arrived
    /\ UNCHANGED <<text, speechPc, segments, blobs>>
    /\ UNCHANGED exceptSpeech

\* await Promise.all(segmentPromises) resumes: with the first rejection the
\* outer catch runs, else, once every promise is fulfilled, the blobs are
\* collected and returned.
SpeechSettles ==
    /\ speechPc = "calling"
    /\ LET rejected == \E i \in 1..Len(results) : results[i] = Rejected
           pending  == \E i \in 1..Len(results) : results[i] = Pending
           end      == IF rejected THEN OnSpeechError ELSE SpeechReturn(results, arrived)
       IN  /\ rejected \/ ~pending
           /\ speechPc' = end.pc
           /\ blobs' = end.blobs
    /\ UNCHANGED <<text, segments, callLog, results, arrived>>
    /\ UNCHANGED exceptSpeech

IllusIdle ==
    /\ articleHtml = ""
    /\ imageCount = 1
    /\ illusPc = "idle"
    /\ plans = <<>>
    /\ planIdx = 0
    /\ updatedHtml = ""
    /\ planLog = <<>>
    /\ lastOutcome = "none"

InitSpeech ==
    /\ text \in Texts
    /\ speechPc = "start"
    /\ segments = <<>>
    /\ callLog = <<>>
    /\ results = <<>>
    /\ arrived = <<>>
    /\ blobs = <<>>
    /\ IllusIdle
    /\ SplitIdle
    /\ FormatIdle
    /\ AppIdle

NextSpeech == SpeechStart \/ AudioSettles \/ SpeechSettles

SpecSpeech == InitSpeech /\ [][NextSpeech]_vars

-----------------------------------------------------------------------------
\* ---- splitTextForTTS called on its own ----

\* Longest text of these calls.
MaxTextLen == 5

\* The characters of the texts: two letters, the blank, and two terminators
\* of which one is white space.
TextChars == {"a", "b", " ", ".", "\n"}

\* The texts of at most n characters.
RECURSIVE TextsUpTo(_)
TextsUpTo(n) ==
    IF n = 0 THEN {""}
    ELSE LET shorter == TextsUpTo(n - 1)
         IN  shorter \cup {t \o c : t \in shorter, c \in TextChars}

\* Longer texts: short sentences that share a segment, next to a sentence
\* longer than each limit.
LongerTexts == {"a.b.abab.", " a. b!\nabba baab; \n\n b?", "abab.a.b.\n \n"}

\* The texts of these calls.
SplitTexts == TextsUpTo(MaxTextLen) \cup LongerTexts

\* The limits of these calls: two short sentences fit the larger one only.
SplitLimits == {2, 4}

\* splitTextForTTS(text, limit) runs and returns segments.
SplitReturns ==
    /\ splitPc = "called"
    /\ ttsSegments' = splitTextForTTS(ttsText, ttsLimit)
    /\ splitPc' = "returned"
    /\ UNCHANGED <<ttsText, ttsLimit>>
    /\ UNCHANGED exceptSplit

InitSplit ==
    /\ ttsText \in SplitTexts
    /\ ttsLimit \in SplitLimits
    /\ splitPc = "called"
    /\ ttsSegments = <<>>
    /\ IllusIdle
    /\ SpeechIdle
    /\ FormatIdle
    /\ AppIdle

NextSplit == SplitReturns

SpecSplit == InitSplit /\ [][NextSplit]_vars

-----------------------------------------------------------------------------
(***************************************************************************)
(* Properties of generateSpeech (checked under SpecSpeech)                 *)
(***************************************************************************)

Succeeded(i) == callLog[i] = "audio"

Failed(i) == callLog[i] \in {"throws", "nopayload"}

\* Position of segment i in the order of completion of the successful calls.
ArrivalOf(i) == CHOOSE k \in 1..Len(arrived) : arrived[k] = i

\* C1: the returned list is in segment order whatever the completion order:
\* when segments i < j both succeeded, the blob of i stands before the blob
\* of j, also when the call of j completed first.
C1_BlobsInSegmentOrder ==
    speechPc = "returned" =>
        \A i, j \in 1..Len(segments) :
            (i < j /\ Succeeded(i) /\ Succeeded(j)) =>
                \E a, b \in 1..Len(blobs) :
                    /\ a < b
                    /\ blobs[a] = Blob(i, segments[i])
                    /\ blobs[b] = Blob(j, segments[j])

\* A call has returned in which a later segment completed before an earlier
\* one and both produced a blob.
C1_Witness ==
    /\ speechPc = "returned"
    /\ \E i, j \in 1..Len(segments) :
         /\ i < j
         /\ Succeeded(i) /\ Succeeded(j)
         /\ ArrivalOf(j) < ArrivalOf(i)

\* C6: a failed audio call (rejected, or without payload) does not abort the
\* others: with n segments of which k failed the result holds n - k blobs,
\* exactly one for each segment that succeeded and none for a failed one.
C6_OneBlobPerSuccess ==
    speechPc = "returned" =>
        /\ Len(blobs) = Len(segments) - Cardinality({i \in 1..Len(segments) : Failed(i)})
        /\ \A i \in 1..Len(segments) :
             Cardinality({a \in 1..Len(blobs) : blobs[a] = Blob(i, segments[i])})
                 = IF Succeeded(i) THEN 1 ELSE 0

\* Five segments, the call of the third failed, four blobs returned.
C6_Witness ==
    /\ speechPc = "returned"
    /\ Len(segments) = 5
    /\ Failed(3)
    /\ \A i \in {1, 2, 4, 5} : Succeeded(i)
    /\ Len(blobs) = 4

\* C7: generateSpeech never raises, and it returns the empty list when the
\* call of every segment failed.
C7_NeverRaises ==
    /\ speechPc # "raised"
    /\ (speechPc = "returned" /\ \A i \in 1..Len(segments) : ~Succeeded(i))
           => blobs = <<>>

\* A call has returned after all of its calls failed, some rejecting and some
\* without payload.
C7_Witness ==
    /\ speechPc = "returned"
    /\ \E i, j \in 1..Len(segments) : callLog[i] = "throws" /\ callLog[j] = "nopayload"
    /\ \A i \in 1..Len(segments) : Failed(i)
    /\ blobs = <<>>

-----------------------------------------------------------------------------
(***************************************************************************)
(* Properties of addIllustrationsToArticle (checked under SpecIllus)       *)
(***************************************************************************)

\* The planning call has settled with a JSON array (kept in plans).
PlansReceived == illusPc # "planning" /\ lastOutcome \notin PlanFailures

\* The planning call failed, or returned no plan.
PlanningFailed ==
    /\ illusPc # "planning"
    /\ planLog = <<>>
    /\ lastOutcome \in PlanFailures \/ (lastOutcome = "plans" /\ Len(plans) = 0)

\* The image fragments of a document, counted by their opening tag.
FragmentCount(doc) == Occurrences(doc, "<figure")

\* Occurrences in doc of the payload of the image call of the k-th plan.
PayloadCount(doc, k) == Occurrences(doc, "base64," \o Base64Of(k))

\* Positions of doc where a fragment starts.
FragmentStarts(doc) ==
    {i \in 1..Len(doc) : i + 8 <= Len(doc) /\ SubSeq(doc, i, i + 8) = "\n <figure"}

\* Position pos of doc lies between the "<" and the ">" of a tag.
InsideTag(doc, pos) ==
    LET lts == {k \in 1..(pos - 1) : CharAt(doc, k) = "<"}
        gts == {k \in 1..(pos - 1) : CharAt(doc, k) = ">"}
    IN  /\ lts # {}
        /\ \A g \in gts : \E l \in lts : l > g

\* doc with frag inserted after position pos.
InsertAfter(doc, pos, frag) == SubSeq(doc, 1, pos) \o frag \o From(doc, pos + 1)

\* C2 as stated: a planning response with fewer plans than imageCount (none
\* included) makes the call raise.
C2_FewerPlansRaise ==
    (PlansReceived /\ Len(plans) < imageCount) => illusPc = "raised"

\* C2 as amended: the call raises when the planning response holds no plan;
\* a response with at least one plan, also with fewer than imageCount, is
\* never raised: its plans are processed.
C2_OnlyNoPlansRaise ==
    PlansReceived =>
        /\ Len(plans) = 0 => illusPc = "raised"
        /\ Len(plans) > 0 => illusPc \in {"imaging", "returned"}

\* A call has returned a document for a response with fewer plans than asked.
C2_Witness ==
    /\ illusPc = "returned"
    /\ Len(plans) > 0
    /\ Len(plans) < imageCount

\* C3: the returned document holds at most imageCount image fragments,
\* whatever the planning response.
C3_AtMostImageCount ==
    illusPc = "returned" => FragmentCount(updatedHtml) <= imageCount

\* C4: the call raises if and only if the planning call fails or returns no
\* plan; no failure of a single plan (image call rejected, payload missing,
\* anchor not found) makes it raise.
C4_RaisesIffPlanningFails == (illusPc = "raised") <=> PlanningFailed

\* A call has returned although the image call of its last plan rejected,
\* another plan had no image and the anchor of another was not found.
C4_Witness ==
    /\ illusPc = "returned"
    /\ lastOutcome = "throws"
    /\ \E j \in 1..(Len(planLog) - 1) : planLog[j] = "noimage"
    /\ \E j \in 1..Len(planLog) : planLog[j] = "notfound"

\* updatedHtml as the loop leaves it when the plans from the k-th on are
\* processed on html and only the plans that log marks as placed or searched
\* have an image; the plans marked "noimage" are skipped.
RECURSIVE Replay(_, _, _, _)
Replay(html, ps, log, k) ==
    IF k > Len(ps) THEN html
    ELSE IF log[k] = "noimage" THEN Replay(html, ps, log, k + 1)
    ELSE Replay(InsertIllustration(html, ps[k], ImgTag(Base64Of(k))).html, ps, log, k + 1)

\* The anchor of a plan is present in doc: the plan is the cover, or the
\* ladder finds its snippet in doc.
AnchorPresent(doc, plan) ==
    plan.isCover \/ (HasSnippet(plan) /\ Locate(doc, plan.contextSnippet).step # "notfound")

\* The plans of the call whose image call gave no image.
NoImagePlans == {k \in 1..Len(planLog) : planLog[k] = "noimage"}

\* C5: a call with 3 plans whose anchors are all present and exactly one
\* image call failing returns a document with exactly 2 fragments, those of
\* the two other plans; and in general the returned document is the one the
\* plans with an image produce on their own, so that a failing plan neither
\* prevents nor undoes the placement of another plan.
C5_FailureIsolated ==
    illusPc = "returned" =>
        /\ Len(planLog) = Len(plans)
        /\ updatedHtml = Replay(articleHtml, plans, planLog, 1)
        /\ ( /\ Len(plans) = 3
             /\ Cardinality(NoImagePlans) = 1
             /\ \A k \in 1..3 : AnchorPresent(articleHtml, plans[k]) )
           => /\ FragmentCount(updatedHtml) = 2
              /\ \A k \in 1..3 :
                   PayloadCount(updatedHtml, k) = IF k \in NoImagePlans THEN 0 ELSE 1

\* A call with 3 plans, all anchors present, has returned after the image
\* call of its second plan rejected, the first and the third being placed.
C5_Witness ==
    /\ illusPc = "returned"
    /\ Len(plans) = 3
    /\ \A k \in 1..3 : AnchorPresent(articleHtml, plans[k])
    /\ NoImagePlans = {2}
    /\ planLog[1] \in PlacedFates \ {"cover"}
    /\ planLog[3] \in PlacedFates
    /\ FragmentCount(updatedHtml) = 2

\* The tags of doc: every substring from a "<" to the next ">".
Tags(doc) ==
    {SubSeq(doc, i, NextChar(doc, ">", i)) :
        i \in {k \in 1..Len(doc) : CharAt(doc, k) = "<" /\ NextChar(doc, ">", k) # 0}}

\* C8: after any sequence of insertions every tag of the article is still
\* intact: it occurs in updatedHtml as often as in the article, and no
\* fragment starts between the "<" and the ">" of a tag.
C8_TagsIntact ==
    illusPc \in {"imaging", "returned"} =>
        /\ \A t \in Tags(articleHtml) :
             Occurrences(updatedHtml, t) >= Occurrences(articleHtml, t)
        /\ \A p \in FragmentStarts(updatedHtml) : ~InsideTag(updatedHtml, p)

\* The positions of doc where a paragraph that holds the snippet ends: the
\* ">" of a "</p>" that follows an occurrence of snippet (letter case
\* ignored) with nothing but tag-free text in between.
ParagraphEnds(doc, snippet) ==
    {e \in 4..Len(doc) :
        /\ LowerStr(SubSeq(doc, e - 3, e)) = "</p>"
        /\ \E i \in 1..(e - 3 - Len(snippet)) :
             /\ LowerStr(SubSeq(doc, i, i + Len(snippet) - 1)) = LowerStr(snippet)
             /\ ~Includes(SubSeq(doc, i + Len(snippet), e - 4), "<")}

\* The image call of the current plan returns a payload in this step.
ImageArrives ==
    /\ illusPc = "imaging"
    /\ Len(planLog') = Len(planLog) + 1
    /\ lastOutcome' = "image"

\* C9: ladder step 1. When the image of a plan that is not the cover
\* arrives and the plan's snippet lies inside a paragraph, followed by
\* tag-free text up to the closing tag, the fragment is inserted immediately
\* after the ">" of the first such paragraph's "</p>", and nowhere else.
C9_AfterParagraph ==
    [][ LET plan == plans[planIdx]
        IN  ( /\ ImageArrives
              /\ ~plan.isCover
              /\ HasSnippet(plan)
              /\ ParagraphEnds(updatedHtml, Trim(plan.contextSnippet)) # {} )
            => updatedHtml' =
                 InsertAfter(updatedHtml,
                             MinOf(ParagraphEnds(updatedHtml, Trim(plan.contextSnippet))),
                             ImgTag(Base64Of(planIdx))) ]_vars

\* The snippet "beta" of the first plan lies in the middle of the first
\* paragraph, and the fragment stands between the two paragraphs.
C9_Witness ==
    /\ articleHtml = ArticleTwoParagraphs
    /\ Len(planLog) = 1
    /\ ~plans[1].isCover
    /\ plans[1].contextSnippet = "beta"
    /\ planLog[1] = "paragraph"
    /\ updatedHtml = "<p>Alpha beta gamma.</p>" \o ImgTag(Base64Of(1)) \o "<p>Delta epsilon.</p>"

\* The call of the end-to-end example: the two-paragraph body, the plans
\* [cover, inline plan for "Alpha beta gamma."], both image calls returning
\* a payload.
EndToEndCall ==
    /\ illusPc = "returned"
    /\ articleHtml = ArticleTwoParagraphs
    /\ plans = <<[isCover |-> TRUE],
                 [isCover |-> FALSE, contextSnippet |-> "Alpha beta gamma."]>>
    /\ NoImagePlans = {}

\* C10: the end-to-end example returns the cover figure, the first
\* paragraph, the second figure immediately after the first paragraph's
\* closing tag, and the second paragraph; the second figure is in no paragraph.
C10_EndToEnd ==
    EndToEndCall =>
        updatedHtml = ImgTag(Base64Of(1)) \o "<p>Alpha beta gamma.</p>"
                      \o ImgTag(Base64Of(2)) \o "<p>Delta epsilon.</p>"

\* The call of the end-to-end example has returned, with two fragments.
C10_Witness == EndToEndCall /\ FragmentCount(updatedHtml) = 2 /\ planLog = <<"cover", "paragraph">>

\* The plan whose image call is outstanding, and its trimmed snippet.
CurrentPlan == plans[planIdx]
CurrentSnippet == Trim(CurrentPlan.contextSnippet)

\* The image of an inline plan (not the cover, with a snippet) arrives.
InlineImageArrives ==
    /\ ImageArrives
    /\ ~CurrentPlan.isCover
    /\ HasSnippet(CurrentPlan)

\* C12: ladder step 2. When the image of an inline plan arrives and the
\* snippet occurs in the document, but no occurrence is followed by tag-free
\* text up to a "</p>", the fragment is inserted immediately after the last
\* character of the first occurrence of the snippet.
C12_AfterFirstOccurrence ==
    [][ ( /\ InlineImageArrives
          /\ Includes(updatedHtml, CurrentSnippet)
          /\ ParagraphEnds(updatedHtml, CurrentSnippet) = {} )
        => updatedHtml' =
             InsertAfter(updatedHtml,
                         IndexOf(updatedHtml, CurrentSnippet) + Len(CurrentSnippet) - 1,
                         ImgTag(Base64Of(planIdx))) ]_vars

\* The snippet "beta" of the first plan is followed by "</b>" in the styled
\* article; the fragment stands right after it, inside the bold element.
C12_Witness ==
    /\ articleHtml = ArticleStyled
    /\ Len(planLog) = 1
    /\ ~plans[1].isCover
    /\ plans[1].contextSnippet = "beta"
    /\ planLog[1] = "snippet"
    /\ updatedHtml =
         "<h2 style=\"text-align: center\">center stage</h2><p>Alpha <b>beta"
         \o ImgTag(Base64Of(1)) \o "</b> gamma.</p>"

\* None of the three steps of the ladder finds snippet in doc.
NowhereFound(doc, snippet) ==
    /\ ParagraphEnds(doc, snippet) = {}
    /\ ~Includes(doc, snippet)
    /\ ~( /\ Len(snippet) > ShortSnippetMin
          /\ Includes(doc, Substring(snippet, 0, ShortSnippetLen)) )

\* C14: give up. When the image of an inline plan arrives and none of the
\* three steps finds its snippet, the plan leaves the document exactly as it
\* was, the call does not raise and goes on with the next plan; it returns
\* only when every plan has been processed.
C14_GiveUpKeepsDocument ==
    [][ ( InlineImageArrives /\ NowhereFound(updatedHtml, CurrentSnippet) )
        => /\ updatedHtml' = updatedHtml
           /\ planIdx' = planIdx + 1
           /\ illusPc' = IF planIdx < Len(plans) THEN "imaging" ELSE "returned"
           /\ illusPc' = "returned" => Len(planLog') = Len(plans) ]_vars

\* A call has returned whose first plan was not found and whose second plan
\* was placed by the ladder.
C14_Witness ==
    /\ illusPc = "returned"
    /\ Len(planLog) >= 2
    /\ planLog[1] = "notfound"
    /\ planLog[2] \in PlacedFates \ {"cover"}
    /\ FragmentCount(updatedHtml) = 1

-----------------------------------------------------------------------------
(***************************************************************************)
(* Properties of the ladder (checked under SpecLadder)                     *)
(***************************************************************************)

\* The first n characters of the current snippet.
SnippetPrefix(n) == Substring(CurrentSnippet, 0, n)

\* The image of an inline plan arrives whose snippet has 25 characters and
\* is not in the document as a whole.
LongSnippetArrives ==
    /\ InlineImageArrives
    /\ Len(CurrentSnippet) = 25
    /\ ~Includes(updatedHtml, CurrentSnippet)
    /\ ParagraphEnds(updatedHtml, CurrentSnippet) = {}

\* C13: ladder step 3. For a snippet of 25 characters that does not occur in
\* the document: when its first 15 characters occur, the fragment is inserted
\* right after the first occurrence of that prefix; when its first 8
\* characters occur and its first 9 do not, nothing is inserted.
C13_PrefixStep ==
    [][ LongSnippetArrives =>
          /\ Includes(updatedHtml, SnippetPrefix(15)) =>
               updatedHtml' =
                 InsertAfter(updatedHtml,
                             IndexOf(updatedHtml, SnippetPrefix(15)) + 14,
                             ImgTag(Base64Of(planIdx)))
          /\ ( Includes(updatedHtml, SnippetPrefix(8))
               /\ ~Includes(updatedHtml, SnippetPrefix(9)) ) =>
               updatedHtml' = updatedHtml ]_vars

\* Both cases in one call on the two-paragraph article: the first plan's
\* snippet shares 8 characters with the text and is dropped, the second
\* plan's fragment stands after "Alpha beta gamm", inside the word.
C13_Witness ==
    /\ illusPc = "returned"
    /\ articleHtml = ArticleTwoParagraphs
    /\ Len(plans) = 2
    /\ ~plans[1].isCover /\ plans[1].contextSnippet = SnippetPrefix8
    /\ ~plans[2].isCover /\ plans[2].contextSnippet = SnippetPrefix15
    /\ planLog = <<"notfound", "prefix">>
    /\ updatedHtml = "<p>Alpha beta gamm" \o ImgTag(Base64Of(2))
                     \o "a.</p><p>Delta epsilon.</p>"

\* C15: cover image. When the image of a cover plan arrives the fragment is
\* prepended: the document after the plan is the fragment followed by the
\* document before it, whether the plan has a contextSnippet or not.
C15_CoverPrepended ==
    [][ (ImageArrives /\ CurrentPlan.isCover)
        => updatedHtml' = ImgTag(Base64Of(planIdx)) \o updatedHtml ]_vars

\* A cover plan whose snippet "beta" occurs in the article has been placed
\* as the second plan, in front of the document and of the first fragment.
C15_Witness ==
    /\ Len(planLog) = 2
    /\ plans[2].isCover
    /\ HasSnippet(plans[2])
    /\ Includes(articleHtml, Trim(plans[2].contextSnippet))
    /\ planLog[1] = "paragraph"
    /\ planLog[2] = "cover"
    /\ SubSeq(updatedHtml, 1, Len(ImgTag(Base64Of(2)))) = ImgTag(Base64Of(2))

-----------------------------------------------------------------------------
(***************************************************************************)
(* Properties of splitTextForTTS (checked under SpecSplit)                 *)
(***************************************************************************)

\* str is empty or white space only.
IsBlank(str) == \A k \in 1..Len(str) : IsSpace(CharAt(str, k))

\* str is segs[k], segs[k+1], ... in this order, with nothing but white
\* space before, between and after them.
RECURSIVE RebuiltFrom(_, _, _)
RebuiltFrom(str, segs, k) ==
    IF k > Len(segs) THEN IsBlank(str)
    ELSE LET at == IndexOf(str, segs[k])
         IN  /\ at # 0
             /\ IsBlank(SubSeq(str, 1, at - 1))
             /\ RebuiltFrom(From(str, at + Len(segs[k])), segs, k + 1)

\* C17: the returned segments, concatenated in order, give back the text but
\* for discarded spans of white space: the text is the segments in order
\* with only white space around them, so that no other character is lost,
\* duplicated or reordered.
C17_SegmentsRebuildText ==
    splitPc = "returned" => RebuiltFrom(ttsText, ttsSegments, 1)

\* Two segments have been returned and a span of white space between them
\* has been discarded.
C17_Witness ==
    /\ splitPc = "returned"
    /\ Len(ttsSegments) = 2
    /\ Len(ttsSegments[1]) + Len(ttsSegments[2]) < Len(ttsText)

\* The ends of the sentences of str: the last character of each run of
\* terminators, and the last character of str.
SentenceEnds(str) ==
    {k \in 1..Len(str) :
        \/ k = Len(str)
        \/ IsTerminator(CharAt(str, k)) /\ ~IsTerminator(CharAt(str, k + 1))}

\* The sentences of str, by their first and last position.
SentenceSpans(str) ==
    {<<i, j>> \in (1..Len(str)) \X SentenceEnds(str) :
        /\ i <= j
        /\ i = 1 \/ (i - 1) \in SentenceEnds(str)
        /\ \A k \in i..(j - 1) : k \notin SentenceEnds(str)}

\* C18: a segment longer than the limit is a single sentence, so that every
\* segment of two or more sentences has at most limit characters; and a
\* sentence longer than the limit (not blank) is never split: it is one of
\* the segments, whole.
C18_OnlySingleSentenceExceeds ==
    splitPc = "returned" =>
        /\ \A n \in 1..Len(ttsSegments) :
             Len(ttsSegments[n]) > ttsLimit =>
                Cardinality(SentenceEnds(ttsSegments[n])) = 1
        /\ \A span \in SentenceSpans(ttsText) :
             LET sentence == SubSeq(ttsText, span[1], span[2])
             IN  (Len(sentence) > ttsLimit /\ ~IsBlank(sentence)) =>
                    \E n \in 1..Len(ttsSegments) : ttsSegments[n] = sentence

\* A segment of two sentences that fills the limit, and a segment that is
\* one sentence longer than the limit, have been returned together.
C18_Witness ==
    /\ splitPc = "returned"
    /\ \E n \in 1..Len(ttsSegments) :
         /\ Cardinality(SentenceEnds(ttsSegments[n])) = 2
         /\ Len(ttsSegments[n]) = ttsLimit
    /\ \E n \in 1..Len(ttsSegments) :
         /\ Cardinality(SentenceEnds(ttsSegments[n])) = 1
         /\ Len(ttsSegments[n]) > ttsLimit

\* C19: no returned segment is empty after trimming, and a text that is
\* empty or white space only (line feeds included) gives no segment.
C19_NoBlankSegment ==
    splitPc = "returned" =>
        /\ \A n \in 1..Len(ttsSegments) : Trim(ttsSegments[n]) # ""
        /\ IsBlank(ttsText) => ttsSegments = <<>>

\* A text of blanks and line feeds has given no segment.
C19_Witness ==
    /\ splitPc = "returned"
    /\ Len(ttsText) >= 3
    /\ IsBlank(ttsText)
    /\ Includes(ttsText, "\n")
    /\ Includes(ttsText, " ")
    /\ ttsSegments = <<>>

-----------------------------------------------------------------------------
(***************************************************************************)
(* HTML documents as the DOM holds them (DOMParser, innerHTML, style)      *)
(* A node is a record: an element has a tag, its attributes in the order   *)
(* they were set, and its child nodes; a text node has the tag "#text" and *)
(* its data. The texts of the model hold no "<", ">", "&" or quote, so the *)
(* escaping of innerHTML leaves them as they are.                          *)
(***************************************************************************)

\* Statements in sequence: F acts on the value v that the statements before
\* it have left, v being computed once.
Then(v, F(_)) == CHOOSE r \in {F(x) : x \in {v}} : TRUE

Attr(name, value) == [name |-> name, value |-> value]

Element(tag, attrs, kids) == [tag |-> tag, data |-> "", attrs |-> attrs, kids |-> kids]

TextNode(data) == [tag |-> "#text", data |-> data, attrs |-> <<>>, kids |-> <<>>]

IsElement(node) == node.tag # "#text"

\* element.children: the child nodes that are elements.
Children(node) == SelectSeq(node.kids, IsElement)

HasAttr(node, name) == \E k \in 1..Len(node.attrs) : node.attrs[k].name = name

GetAttr(node, name) ==
    IF HasAttr(node, name)
    THEN node.attrs[CHOOSE k \in 1..Len(node.attrs) : node.attrs[k].name = name].value
    ELSE ""

\* setAttribute: an attribute the element has keeps its place, a new one
\* comes last.
SetAttr(node, name, value) ==
    LET Set(attrs, new) ==
            IF \E k \in 1..Len(attrs) : attrs[k].name = name
            THEN [k \in 1..Len(attrs) |-> IF attrs[k].name = name THEN new ELSE attrs[k]]
            ELSE Append(attrs, new)
    IN  Then(node, LAMBDA el :
            Then(Attr(name, value), LAMBDA new : [el EXCEPT !.attrs = Set(el.attrs, new)]))

\* removeAttribute
RemoveAttr(node, name) ==
    [node EXCEPT !.attrs = SelectSeq(node.attrs, LAMBDA a : a.name # name)]

\* The members of a set of numbers, in increasing order.
SortedSeq(S) ==
    LET Ranked(T) ==
            [k \in 1..Cardinality(T) |->
                CHOOSE x \in T : Cardinality({y \in T : y < x}) = k - 1]
    IN  Then(S, LAMBDA T : SubSeq(Ranked(T), 1, Cardinality(T)))

\* str cut at every occurrence of the character c.
SplitOn(str, c) ==
    LET Pieces(cuts) ==
            [k \in 1..(Len(cuts) + 1) |->
                SubSeq(str, IF k = 1 THEN 1 ELSE cuts[k - 1] + 1,
                            IF k = Len(cuts) + 1 THEN Len(str) ELSE cuts[k] - 1)]
    IN  Then(SortedSeq({k \in 1..Len(str) : CharAt(str, k) = c}), Pieces)

\* The strings strs[lo..hi], one after the other.
RECURSIVE ConcatRange(_, _, _)
ConcatRange(strs, lo, hi) ==
    IF lo > hi THEN ""
    ELSE IF lo = hi THEN strs[lo]
    ELSE LET mid == (lo + hi) \div 2
         IN  ConcatRange(strs, lo, mid) \o ConcatRange(strs, mid + 1, hi)

Concat(strs) == Then(SubSeq(strs, 1, Len(strs)), LAMBDA ss : ConcatRange(ss, 1, Len(ss)))

\* One declaration of a style: "prop: value", blanks around both dropped.
Decl(str) ==
    LET at == IndexOf(str, ":")
    IN  [prop |-> Trim(SubSeq(str, 1, at - 1)), value |-> Trim(From(str, at + 1))]

\* The declarations of a style attribute or of a string assigned to
\* style.cssText: the text between the semicolons, blank pieces and pieces
\* without a colon dropped. Values are kept as written.
ParseStyle(cssText) ==
    LET Decls(pieces) == [k \in 1..Len(pieces) |-> Decl(pieces[k])]
    IN  Then(SelectSeq(SplitOn(cssText, ";"), LAMBDA d : IndexOf(d, ":") # 0), Decls)

\* The style attribute for a list of declarations: "prop: value;" joined by
\* a blank.
SerializeStyle(decls) ==
    LET Written(ds) ==
            Concat([k \in 1..Len(ds) |->
                      (IF k = 1 THEN "" ELSE " ") \o ds[k].prop \o ": " \o ds[k].value \o ";"])
    IN  Then(decls, Written)

\* element.style: the declarations of the style attribute.
StyleOf(node) == ParseStyle(GetAttr(node, "style"))

\* Fault variant of SetCssText: the new declarations are added to the ones
\* the element has.
AddCssText(node, cssText) ==
    SetAttr(node, "style", SerializeStyle(StyleOf(node) \o ParseStyle(cssText)))

\* element.style.cssText = cssText: the declarations of the element are
\* replaced, and the style attribute is written from them.
SetCssText(node, cssText) == SetAttr(node, "style", SerializeStyle(ParseStyle(cssText)))

\* element.style.boxSizing = 'border-box': the declaration is updated where
\* it stands, or added at the end.
SetBoxSizing(node) ==
    LET set == [prop |-> "box-sizing", value |-> "border-box"]
        Reset(decls) ==
            IF \E k \in 1..Len(decls) : decls[k].prop = "box-sizing"
            THEN [k \in 1..Len(decls) |->
                    IF decls[k].prop = "box-sizing" THEN set ELSE decls[k]]
            ELSE Append(decls, set)
    IN  SetAttr(node, "style", SerializeStyle(Then(StyleOf(node), Reset)))

\* Elements without content and without end tag.
VoidTags == {"img", "br", "hr"}

\* innerHTML: the serialization of a list of nodes.
RECURSIVE SerializeNode(_)
SerializeNode(node) ==
    LET Written(el) ==
            IF ~IsElement(el) THEN el.data
            ELSE "<" \o el.tag
                 \o Concat([k \in 1..Len(el.attrs) |->
                              " " \o el.attrs[k].name \o "=\"" \o el.attrs[k].value \o "\""])
                 \o ">"
                 \o (IF el.tag \in VoidTags THEN ""
                     ELSE Concat([k \in 1..Len(el.kids) |-> SerializeNode(el.kids[k])])
                          \o "</" \o el.tag \o ">")
    IN  Then(node, Written)

SerializeNodes(nodes) ==
    Then(nodes, LAMBDA ns : Concat([k \in 1..Len(ns) |-> SerializeNode(ns[k])]))

\* ---- the HTML parser, for the markup of the model ----

\* Position of the ">" that ends the tag opened before position i of str, a
\* ">" inside a quoted attribute value being skipped; 0 if there is none.
RECURSIVE TagEnd(_, _)
TagEnd(str, i) ==
    LET gt == NextChar(str, ">", i)
        qt == NextChar(str, "\"", i)
    IN  IF gt = 0 THEN 0
        ELSE IF qt = 0 \/ gt < qt THEN gt
        ELSE LET close == NextChar(str, "\"", qt + 1)
             IN  IF close = 0 THEN 0 ELSE TagEnd(str, close + 1)

\* The name of a tag from the text between its "<" and ">": up to the first
\* blank, a leading or trailing "/" left out, in lower case.
TagName(inner) ==
    LET bare  == IF Len(inner) > 0 /\ CharAt(inner, 1) = "/" THEN From(inner, 2) ELSE inner
        stops == {k \in 1..Len(bare) : IsSpace(CharAt(bare, k)) \/ CharAt(bare, k) = "/"}
    IN  LowerStr(IF stops = {} THEN bare ELSE SubSeq(bare, 1, MinOf(stops) - 1))

\* The attributes written in rest, the text of a start tag after its name:
\* name="value" pairs; a name without value has the empty value.
RECURSIVE TagAttrs(_)
TagAttrs(rest) ==
    LET str == TrimStart(rest)
    IN  IF str = "" \/ str = "/" THEN <<>>
        ELSE LET stops == {k \in 1..Len(str) : IsSpace(CharAt(str, k)) \/ CharAt(str, k) = "="}
                 stop  == IF stops = {} THEN Len(str) + 1 ELSE MinOf(stops)
                 name  == SubSeq(str, 1, stop - 1)
             IN  IF stop + 1 <= Len(str) /\ SubSeq(str, stop, stop + 1) = "=\""
                 THEN LET close == NextChar(str, "\"", stop + 2)
                      IN  <<Attr(name, SubSeq(str, stop + 2, close - 1))>>
                          \o TagAttrs(From(str, close + 1))
                 ELSE <<Attr(name, "")>> \o TagAttrs(From(str, stop + 1))

\* Start tags that close a p element that is open.
ClosesP == {"p", "h1", "h2", "h3", "figure", "section", "div", "ul", "ol"}

\* The stack of open elements; its first entry is the body. The element on
\* top is closed: it becomes the last child of the one below.
HasOpen(stack, tag) == \E k \in 2..Len(stack) : stack[k].tag = tag

AppendKid(stack, node) ==
    [stack EXCEPT ![Len(stack)].kids = Append(stack[Len(stack)].kids, node)]

Pop(stack) == AppendKid(SubSeq(stack, 1, Len(stack) - 1), stack[Len(stack)])

RECURSIVE PopThrough(_, _)
PopThrough(stack, tag) ==
    IF stack[Len(stack)].tag = tag THEN Pop(stack) ELSE PopThrough(Pop(stack), tag)

RECURSIVE PopAll(_)
PopAll(stack) == IF Len(stack) = 1 THEN stack[1].kids ELSE PopAll(Pop(stack))

\* A start tag: an open p is closed first by the tags of ClosesP; a void
\* element is complete at once.
StartTag(stack, tag, attrs) ==
    LET open == IF tag \in ClosesP /\ HasOpen(stack, "p") THEN PopThrough(stack, "p")
                ELSE stack
    IN  IF tag \in VoidTags THEN AppendKid(open, Element(tag, attrs, <<>>))
        ELSE Append(open, Element(tag, attrs, <<>>))

\* An end tag: closes the open element of its name and those above it; with
\* no such element it is ignored, but "</p>" gives an empty p element.
EndTag(stack, tag) ==
    IF HasOpen(stack, tag) THEN PopThrough(stack, tag)
    ELSE IF tag = "p" THEN AppendKid(stack, Element("p", <<>>, <<>>))
    ELSE stack

\* The tokens of str: the tags, each from a "<" to the ">" that ends it, and
\* the runs of text between them. The markup of the model has no "<" inside
\* a tag; a "<" without its ">" ends the input.
Tokens(str) ==
    LET opens == {k \in 1..Len(str) : CharAt(str, k) = "<"}
        tags  == {<<k, TagEnd(str, k + 1)>> : k \in opens}
        whole == {t \in tags : t[2] # 0}
        stop  == IF whole = tags THEN Len(str) + 1
                 ELSE MinOf({t[1] : t \in tags \ whole})
        taken == {t \in whole : t[1] < stop}
        edges == {0} \cup {t[2] : t \in taken}
        marks == {t[1] : t \in taken} \cup {stop}
        texts == {<<e + 1, MinOf({m \in marks : m > e}) - 1>> : e \in edges}
        runs  == {t \in texts : t[1] <= t[2]}
        Cut(spans, from) ==
            [k \in 1..Len(from) |->
                LET t == CHOOSE u \in spans : u[1] = from[k]
                IN  [isTag |-> CharAt(str, t[1]) = "<", str |-> SubSeq(str, t[1], t[2])]]
    IN  Then(taken \cup runs, LAMBDA all :
            Then(SortedSeq({t[1] : t \in all}), LAMBDA order :
                SubSeq(Cut(all, order), 1, Len(order))))

\* One token on the stack of open elements.
TreeStep(stack, token) ==
    IF token.isTag
    THEN LET inner == SubSeq(token.str, 2, Len(token.str) - 1)
             tag   == TagName(inner)
         IN  IF CharAt(inner, 1) = "/" THEN EndTag(stack, tag)
             ELSE StartTag(stack, tag, TagAttrs(From(inner, Len(tag) + 1)))
    ELSE AppendKid(stack, TextNode(token.str))

\* The tokens lo..hi in turn on the stack of open elements: the tokens of the
\* second half act on the stack the first half has left.
RECURSIVE BuildTree(_, _, _, _)
BuildTree(tokens, lo, hi, stack) ==
    IF lo > hi THEN stack
    ELSE IF lo = hi THEN TreeStep(stack, tokens[lo])
    ELSE LET mid == (lo + hi) \div 2
         IN  Then(BuildTree(tokens, lo, mid, stack),
                  LAMBDA left : BuildTree(tokens, mid + 1, hi, left))

\* element.innerHTML = html: the child nodes the markup gives an element.
ParseFragment(html) ==
    Then(Tokens(html), LAMBDA tokens :
        PopAll(BuildTree(tokens, 1, Len(tokens), <<Element("body", <<>>, <<>>)>>)))

\* new DOMParser().parseFromString(html, 'text/html').body.childNodes: white
\* space before the first tag or text is dropped.
ParseBody(html) == ParseFragment(TrimStart(html))

\* Fault variant of ReplaceAll: the pattern without the g flag, only the
\* first occurrence is replaced.
ReplaceFirst(str, pattern, replacement) ==
    LET at == IndexOf(str, pattern)
    IN  IF at = 0 THEN str
        ELSE SubSeq(str, 1, at - 1) \o replacement \o From(str, at + Len(pattern))

\* String.prototype.replace(/pattern/g, replacement) for a literal pattern
\* and a replacement without "$".
RECURSIVE ReplaceAll(_, _, _)
ReplaceAll(str, pattern, replacement) ==
    LET at == IndexOf(str, pattern)
    IN  IF at = 0 THEN str
        ELSE SubSeq(str, 1, at - 1) \o replacement
             \o ReplaceAll(From(str, at + Len(pattern)), pattern, replacement)

-----------------------------------------------------------------------------
(***************************************************************************)
(* formatHtmlForWeChat (App.tsx)                                           *)
(***************************************************************************)

\* wrapper.style.cssText; the font-family list is cut to its unquoted names.
WrapperStyle ==
    "font-family: -apple-system, BlinkMacSystemFont, Arial, sans-serif;"
    \o " font-size: 16px; line-height: 1.75; color: #333333;"
    \o " letter-spacing: 0.034em; text-align: justify; word-break: break-all;"
    \o " box-sizing: border-box; margin: 0; padding: 10px;"

H2Style ==
    "font-size: 17px; font-weight: bold; margin-top: 40px; margin-bottom: 24px;"
    \o " color: #333333; text-align: center !important; line-height: 1.4;"
    \o " box-sizing: border-box; display: block; width: 100%;"
    \o " margin-left: auto; margin-right: auto;"

H3Style ==
    "font-size: 17px; font-weight: bold; margin-top: 30px; margin-bottom: 20px;"
    \o " color: #333333; text-align: center !important; line-height: 1.4;"
    \o " box-sizing: border-box; display: block; width: 100%;"
    \o " margin-left: auto; margin-right: auto;"

PStyle ==
    "margin: 0 0 24px 0; font-size: 16px; line-height: 1.8; color: #333333;"
    \o " text-align: justify; box-sizing: border-box;"

ImgStyle ==
    "display: block; margin: 0 auto; max-width: 100% !important;"
    \o " height: auto !important; border-radius: 6px; box-sizing: border-box;"
    \o " box-shadow: 0 4px 12px rgba(0,0,0,0.08); visibility: visible !important;"
    \o " opacity: 1 !important;"

FigureStyle ==
    "margin: 20px 0; padding: 0; text-align: center; display: block;"
    \o " width: 100%; box-sizing: border-box;"

StrongStyle == "font-weight: 700; color: #333333;"

\* The comment of the source after the colour is not a declaration.
EmStyle == "font-style: italic; color: #ff5f00; font-weight: bold; padding: 0 2px;"

UStyle ==
    "text-decoration: underline; text-decoration-color: #ff5f00;"
    \o " text-decoration-thickness: 1.5px; text-underline-offset: 4px;"

ListStyle == "margin: 0 0 20px 20px; padding: 0;"

LiStyle == "margin-bottom: 8px;"

\* The tags of the if / else if chain of processNode, and the cssText each
\* one assigns.
StyledTags == {"h2", "h3", "p", "img", "strong", "b", "em", "u", "ul", "ol", "li"}

TagStyle(tag) ==
    CASE tag = "h2" -> H2Style
      [] tag = "h3" -> H3Style
      [] tag = "p" -> PStyle
      [] tag = "img" -> ImgStyle
      [] tag \in {"strong", "b"} -> StrongStyle
      [] tag = "em" -> EmStyle
      [] tag = "u" -> UStyle
      [] tag \in {"ul", "ol"} -> ListStyle
      [] tag = "li" -> LiStyle

\* processNode, but for the style an img gives to its parent figure: the
\* box-sizing reset, then the cssText of the tag if it has one; an img also
\* loses its width and height attributes.
processNode(node) ==
    LET Styled(reset) ==
            IF reset.tag \in StyledTags THEN SetCssText(reset, TagStyle(reset.tag))
            ELSE reset
        Sized(styled) ==
            IF styled.tag = "img" THEN RemoveAttr(RemoveAttr(styled, "width"), "height")
            ELSE styled
    IN  Then(Then(SetBoxSizing(node), Styled), Sized)

\* walk: processNode on root, then on each of its child elements in turn; a
\* figure gets its container style from a child that is an img.
RECURSIVE walk(_)
walk(root) ==
    LET Walked(el) ==
            LET kids   == [k \in 1..Len(el.kids) |->
                             IF IsElement(el.kids[k]) THEN walk(el.kids[k]) ELSE el.kids[k]]
                hasImg == \E k \in 1..Len(el.kids) : el.kids[k].tag = "img"
                Outer(own) == IF el.tag = "figure" /\ hasImg
                              THEN SetCssText(own, FigureStyle) ELSE own
            IN  [Then(processNode(el), Outer) EXCEPT !.kids = SubSeq(kids, 1, Len(el.kids))]
    IN  Then(root, Walked)

\* The section element the body's child nodes are moved into.
Wrapper(kids) ==
    [SetAttr(SetCssText(Element("section", <<>>, <<>>), WrapperStyle),
             "data-tool", "AIWriter")
     EXCEPT !.kids = kids]

formatHtmlForWeChat(html) ==
    LET Flattened(formattedHtml) ==
            ReplaceAll(ReplaceAll(formattedHtml, "<figure", "<p"), "</figure>", "</p>")
    IN  Then(SerializeNodes(<<walk(Wrapper(ParseBody(html)))>>), Flattened)

\* ---- formatHtmlForWeChat called on its own, then on its output ----

\* Most blocks of a document of these calls.
MaxBlocks == 2

\* The blocks the documents are made of: headings and paragraphs with and
\* without a style of their own, inline marks, a list, the figure fragment
\* of addIllustrationsToArticle, a figure without image, an image with a
\* width and a height outside a figure, and elements processNode has no
\* style for.
FormatBlocks ==
    { "<h1>Title</h1>",
      "<h2>Part one</h2>",
      "<h3 style=\"color: red\">Detail</h3>",
      "<p>Alpha <strong>beta</strong> <em>gamma</em> <u>delta</u>.</p>",
      "<p style=\"text-align: left; box-sizing: content-box\">Left <b>bold</b></p>",
      "<ul><li>one</li><li>two</li></ul>",
      ImgTag(Base64Of(1)),
      "<figure><span>no image</span></figure>",
      "<img src=\"a.png\" width=\"300\" height=\"200\">",
      "<div style=\"color: blue\"><span>note</span></div>" }

\* The documents of at most n blocks.
RECURSIVE DocsUpTo(_)
DocsUpTo(n) ==
    IF n = 0 THEN {""}
    ELSE LET shorter == DocsUpTo(n - 1)
         IN  shorter \cup {d \o b : d \in shorter, b \in FormatBlocks}

FormatFirst ==
    /\ fmtPc = "called"
    /\ formattedOnce' = formatHtmlForWeChat(fmtHtml)
    /\ fmtPc' = "once"
    /\ UNCHANGED <<fmtHtml, formattedTwice>>
    /\ UNCHANGED exceptFormat

FormatAgain ==
    /\ fmtPc = "once"
    /\ formattedTwice' = formatHtmlForWeChat(formattedOnce)
    /\ fmtPc' = "twice"
    /\ UNCHANGED <<fmtHtml, formattedOnce>>
    /\ UNCHANGED exceptFormat

InitFormat ==
    /\ fmtHtml \in DocsUpTo(MaxBlocks)
    /\ fmtPc = "called"
    /\ formattedOnce = ""
    /\ formattedTwice = ""
    /\ IllusIdle
    /\ SpeechIdle
    /\ SplitIdle
    /\ AppIdle

NextFormat == FormatFirst \/ FormatAgain

SpecFormat == InitFormat /\ [][NextFormat]_vars

-----------------------------------------------------------------------------
(***************************************************************************)
(* Properties of formatHtmlForWeChat (checked under SpecFormat)            *)
(***************************************************************************)

ElementsOf(nodes) == SelectSeq(nodes, IsElement)

\* The elements of once and of twice are the same tree of tags, and each
\* element has the same style attribute in both, but for the elements whose
\* place holds a figure in orig.
RECURSIVE SameStyling(_, _, _)
SameStyling(once, twice, orig) ==
    LET a == ElementsOf(once)
        b == ElementsOf(twice)
        o == ElementsOf(orig)
    IN  /\ Len(a) = Len(b)
        /\ Len(a) = Len(o)
        /\ \A k \in 1..Len(a) :
             /\ a[k].tag = b[k].tag
             /\ o[k].tag # "figure" => GetAttr(a[k], "style") = GetAttr(b[k], "style")
             /\ SameStyling(a[k].kids, b[k].kids, o[k].kids)

\* C20: formatHtmlForWeChat applied to its own output gives every element
\* of that output (found inside the new wrapper) the inline style it had
\* after the first application, except the elements that were figures
\* before the first application.
C20_SameStyleOnReapply ==
    fmtPc = "twice" =>
        LET second == ParseBody(formattedTwice)
        IN  /\ Len(second) = 1
            /\ second[1].tag = "section"
            /\ SameStyling(ParseBody(formattedOnce), second[1].kids,
                           <<Wrapper(ParseBody(fmtHtml))>>)

\* A document with a heading that had a style of its own and with a figure
\* has been formatted twice; the former figure changed its style.
C20_Witness ==
    /\ fmtPc = "twice"
    /\ Includes(fmtHtml, "<h3 style")
    /\ Includes(fmtHtml, "<figure style")
    /\ Includes(formattedOnce, "<p style=\"" \o FigureStyle)
    /\ ~Includes(formattedTwice, "<p style=\"" \o FigureStyle)

-----------------------------------------------------------------------------
(***************************************************************************)
(* generateArticle (services/gemini.ts) and the App component (App.tsx):   *)
(* handleGenerate and handleAutoGenerateImages. The Chinese texts of the   *)
(* source are given in English.                                            *)
(***************************************************************************)

\* Stands for the three grave accents of a Markdown code fence.
Fence == "'''"

StartsWith(str, prefix) == Len(str) >= Len(prefix) /\ SubSeq(str, 1, Len(prefix)) = prefix

EndsWith(str, suffix) ==
    Len(str) >= Len(suffix) /\ SubSeq(str, Len(str) - Len(suffix) + 1, Len(str)) = suffix

\* text.replace(/^FENCEhtml\s*/, '').replace(/^FENCE\s*/, '').replace(/FENCE$/, '')
StripFences(str) ==
    LET NoLang(a) ==
            IF StartsWith(a, Fence \o "html")
            THEN TrimStart(From(a, Len(Fence) + 5)) ELSE a
        NoOpen(b) ==
            IF StartsWith(b, Fence) THEN TrimStart(From(b, Len(Fence) + 1)) ELSE b
        NoClose(c) ==
            IF EndsWith(c, Fence) THEN SubSeq(c, 1, Len(c) - Len(Fence)) ELSE c
    IN  Then(Then(Then(str, NoLang), NoOpen), NoClose)

\* The string returned by the catch of generateArticle.
FailedArticle ==
    "<h1>Generation failed</h1>"
    \o "<p>An error occurred while generating the article, please retry later.</p>"
    \o "<p>Please check the network connection or the API quota.</p>"

\* The body set by the catch of handleGenerate.
FailedBody == "<p>Generation failed, please retry</p>"

\* What the text-generation call can do: return a response with a text,
\* return a response without text, or reject.
ArticleTexts ==
    { "<h1>Cats</h1><p>Alpha beta gamma.</p><p>Delta epsilon.</p>",
      Fence \o "html\n<h1>Cats <em>now</em></h1><h2>Part one</h2>"
            \o "<p>Alpha <strong>beta</strong> gamma.</p>\n" \o Fence,
      "<p>Alpha beta gamma.</p>" }

ArticleOutcomes ==
    {[kind |-> "text", text |-> t] : t \in ArticleTexts}
    \cup {[kind |-> "notext", text |-> ""], [kind |-> "rejects", text |-> ""]}

\* Fault variant of generateArticle: the catch rethrows.
generateArticleRethrows(outcome) ==
    IF outcome.kind = "rejects" THEN [pc |-> "raised", html |-> ""]
    ELSE [pc |-> "returned", html |-> StripFences(outcome.text)]

\* generateArticle from the moment the text-generation call settles: how
\* the function ends and the string it returns.
generateArticle(outcome) ==
    IF outcome.kind = "rejects" THEN [pc |-> "returned", html |-> FailedArticle]
    ELSE [pc |-> "returned", html |-> StripFences(outcome.text)]

\* doc.querySelector('h1') and h1.remove(): the first h1 of nodes in document
\* order, if there is one, and nodes without it.
RECURSIVE TakeH1(_)
TakeH1(nodes) ==
    IF nodes = <<>> THEN [h1 |-> <<>>, rest |-> <<>>]
    ELSE IF Head(nodes).tag = "h1" THEN [h1 |-> <<Head(nodes)>>, rest |-> Tail(nodes)]
    ELSE Then(TakeH1(Head(nodes).kids), LAMBDA inner :
            IF inner.h1 # <<>>
            THEN [h1   |-> inner.h1,
                  rest |-> <<[Head(nodes) EXCEPT !.kids = inner.rest]>> \o Tail(nodes)]
            ELSE Then(TakeH1(Tail(nodes)), LAMBDA later :
                    [h1 |-> later.h1, rest |-> <<Head(nodes)>> \o later.rest]))

\* h1.innerText: the text of the node and of the nodes inside it.
RECURSIVE InnerText(_)
InnerText(node) ==
    IF ~IsElement(node) THEN node.data
    ELSE Concat([k \in 1..Len(node.kids) |-> InnerText(node.kids[k])])

\* handleGenerate on the string generateArticle returned: titleText and
\* bodyHtml.
TitleAndBody(html) ==
    Then(TakeH1(ParseBody(html)), LAMBDA taken :
        IF taken.h1 # <<>>
        THEN [title |-> InnerText(taken.h1[1]), body |-> SerializeNodes(taken.rest)]
        ELSE [title |-> "", body |-> html])

\* Most image runs and most handleGenerate calls started in a behaviour.
MaxImageRuns == 1
MaxArticles == 2

Topics == {"  ", "Cats"}

\* The plans the planning call returns to the component's image runs.
AppPlanLists ==
    { <<>>,
      <<[isCover |-> TRUE]>>,
      <<[isCover |-> TRUE], [isCover |-> FALSE, contextSnippet |-> "Alpha beta gamma."]>>,
      <<[isCover |-> FALSE, contextSnippet |-> "beta"]>> }

\* Elements that innerText puts on lines of their own.
BlockTags ==
    {"p", "h1", "h2", "h3", "div", "section", "figure", "figcaption",
     "ul", "ol", "li", "blockquote"}

TextItem(str) == [brk |-> 0, str |-> str]
BreakItem(n) == [brk |-> n, str |-> ""]

\* innerText, first pass: the texts of nodes in document order, with the
\* line breaks required around every block (two around a paragraph, one
\* around any other block, one for a br); white space between blocks gives
\* no text.
RECURSIVE InnerTextItems(_)
InnerTextItems(nodes) ==
    IF nodes = <<>> THEN <<>>
    ELSE Then(Head(nodes), LAMBDA node :
            (IF ~IsElement(node)
             THEN (IF Trim(node.data) = "" THEN <<>> ELSE <<TextItem(node.data)>>)
             ELSE IF node.tag = "br" THEN <<BreakItem(1)>>
             ELSE IF node.tag \in BlockTags
             THEN Then(IF node.tag = "p" THEN 2 ELSE 1, LAMBDA n :
                     <<BreakItem(n)>> \o InnerTextItems(node.kids) \o <<BreakItem(n)>>)
             ELSE InnerTextItems(node.kids))
            \o InnerTextItems(Tail(nodes)))

\* innerText, second pass: the texts joined, with as many line feeds between
\* two texts as the largest break required between them, and none at the
\* ends.
RECURSIVE JoinItems(_, _, _, _)
JoinItems(items, i, out, brk) ==
    IF i > Len(items) THEN out
    ELSE IF items[i].brk > 0
    THEN JoinItems(items, i + 1, out, IF items[i].brk > brk THEN items[i].brk ELSE brk)
    ELSE JoinItems(items, i + 1,
                   out \o (IF out = "" THEN "" ELSE Repeat("\n", brk)) \o items[i].str, 0)

\* articleBodyRef.current.innerText for the panel showing html.
PanelInnerText(html) ==
    Then(InnerTextItems(ParseFragment(html)), LAMBDA items : JoinItems(items, 1, "", 0))

\* The promise of addIllustrationsToArticle has settled and the rest of
\* handleAutoGenerateImages has not run yet: it runs before any other event.
ContinuationPending == generatingImages /\ illusPc \in {"returned", "raised"}

\* The promise of generateSpeech has settled and the rest of
\* handleGenerateAudio has not run yet.
AudioContinuationPending == generatingAudio /\ speechPc \in {"returned", "raised"}

\* An await of a handler has been resumed: no event is handled before it.
AnyContinuationPending == ContinuationPending \/ AudioContinuationPending

\* The user clicks the generate button, or presses Enter in the topic input
\* (both disabled while loading; nothing happens without a topic):
\* handleGenerate up to its await.
HandleGenerate ==
    /\ ~loading
    /\ Trim(topic) # ""
    /\ ~AnyContinuationPending
    /\ articleNo < MaxArticles
    /\ loading' = TRUE
    /\ generatedTitle' = ""
    /\ generatedBody' = ""
    /\ audioUrls' = <<>>
    /\ articlePc' = "calling"
    /\ articleOutcome' = "none"
    /\ articleResult' = ""
    /\ articleNo' = articleNo + 1
    /\ shownArticle' = 0
    /\ audioArticle' = IF generatingAudio THEN audioArticle ELSE 0
    /\ UNCHANGED <<topic, generatingImages, generatingAudio, imageRuns,
                   imagesArticle>>
    /\ UNCHANGED illusVars
    /\ UNCHANGED exceptApp

\* The text-generation call settles in one of the ways of outcomes: the rest
\* of generateArticle, then the rest of handleGenerate.
ArticleArrives(outcomes) ==
    /\ articlePc = "calling"
    /\ ~AnyContinuationPending
    /\ \E outcome \in outcomes :
         \E call \in {generateArticle(outcome)} :
            /\ articleOutcome' = outcome.kind
            /\ articlePc' = call.pc
            /\ articleResult' = call.html
            /\ IF call.pc = "raised"
               THEN /\ generatedBody' = FailedBody
                    /\ UNCHANGED generatedTitle
               ELSE \E parts \in {TitleAndBody(call.html)} :
                       /\ generatedTitle' = parts.title
                       /\ generatedBody' = formatHtmlForWeChat(parts.body)
    /\ loading' = FALSE
    /\ shownArticle' = articleNo
    /\ UNCHANGED <<topic, generatingImages, generatingAudio, audioUrls, imageRuns,
                   articleNo, imagesArticle, audioArticle>>
    /\ UNCHANGED illusVars
    /\ UNCHANGED exceptApp

\* The user clicks the image button (shown with the article panel, disabled
\* while generatingImages): handleAutoGenerateImages up to its await, on the
\* innerHTML of the panel.
HandleAutoGenerateImages ==
    /\ generatedBody # ""
    /\ ~generatingImages
    /\ ~AnyContinuationPending
    /\ imageRuns < MaxImageRuns
    /\ \E currentHtml \in {SerializeNodes(ParseFragment(generatedBody))} :
         /\ currentHtml # ""
         /\ articleHtml' = currentHtml
    /\ illusPc' = "planning"
    /\ plans' = <<>>
    /\ planIdx' = 0
    /\ updatedHtml' = ""
    /\ planLog' = <<>>
    /\ lastOutcome' = "none"
    /\ generatingImages' = TRUE
    /\ imageRuns' = imageRuns + 1
    /\ imagesArticle' = shownArticle
    /\ UNCHANGED <<imageCount, topic, loading, generatedTitle, generatedBody,
                   generatingAudio, audioUrls, articlePc, articleOutcome,
                   articleResult, articleNo, shownArticle, audioArticle>>
    /\ UNCHANGED exceptApp

ArticleSettles == ArticleArrives(ArticleOutcomes)

AppAnalysisReturns == PlansArrive(AppPlanLists)

\* Fault variant of ImagesFinish: setGeneratingImages(false) stands at the
\* end of the try block and not in a finally.
ImagesFinishWithoutFinally ==
    /\ ContinuationPending
    /\ generatedBody' = IF illusPc = "returned" THEN updatedHtml ELSE generatedBody
    /\ shownArticle' = IF illusPc = "returned" THEN imagesArticle ELSE shownArticle
    /\ generatingImages' = (illusPc # "returned")
    /\ imagesArticle' = 0
    /\ articleHtml' = ""
    /\ illusPc' = "idle"
    /\ plans' = <<>>
    /\ planIdx' = 0
    /\ updatedHtml' = ""
    /\ planLog' = <<>>
    /\ lastOutcome' = "none"
    /\ UNCHANGED <<imageCount, topic, loading, generatedTitle, generatingAudio,
                   audioUrls, articlePc, articleOutcome, articleResult, imageRuns,
                   articleNo, audioArticle>>
    /\ UNCHANGED exceptApp

\* The rest of handleAutoGenerateImages: setGeneratedBody(updatedHtml), or
\* the alert of the catch; then the finally.
ImagesFinish ==
    /\ ContinuationPending
    /\ generatedBody' = IF illusPc = "returned" THEN updatedHtml ELSE generatedBody
    /\ shownArticle' = IF illusPc = "returned" THEN imagesArticle ELSE shownArticle
    /\ generatingImages' = FALSE
    /\ imagesArticle' = 0
    /\ articleHtml' = ""
    /\ illusPc' = "idle"
    /\ plans' = <<>>
    /\ planIdx' = 0
    /\ updatedHtml' = ""
    /\ planLog' = <<>>
    /\ lastOutcome' = "none"
    /\ UNCHANGED <<imageCount, topic, loading, generatedTitle, generatingAudio,
                   audioUrls, articlePc, articleOutcome, articleResult, imageRuns,
                   articleNo, audioArticle>>
    /\ UNCHANGED exceptApp

\* The user clicks the audio button (shown with the article panel while
\* there are no download links, disabled while generatingAudio):
\* handleGenerateAudio up to its await, on the innerText of the panel, with
\* the synchronous start of generateSpeech.
HandleGenerateAudio ==
    /\ generatedBody # ""
    /\ audioUrls = <<>>
    /\ ~generatingAudio
    /\ ~AnyContinuationPending
    /\ \E textContent \in {PanelInnerText(generatedBody)} :
         /\ Trim(textContent) # ""
         /\ text' = textContent
         /\ \E segs \in {splitTextForTTS(textContent, SpeechLimit)} :
              /\ segments' = segs
              /\ callLog' = [i \in 1..Len(segs) |->
                                IF Trim(segs[i]) = "" THEN "skipped" ELSE "pending"]
              /\ results' = [i \in 1..Len(segs) |->
                                IF Trim(segs[i]) = "" THEN Null ELSE Pending]
    /\ speechPc' = "calling"
    /\ arrived' = <<>>
    /\ blobs' = <<>>
    /\ generatingAudio' = TRUE
    /\ audioUrls' = <<>>
    /\ audioArticle' = shownArticle
    /\ UNCHANGED <<topic, loading, generatedTitle, generatedBody, generatingImages,
                   articlePc, articleOutcome, articleResult, imageRuns, articleNo,
                   shownArticle, imagesArticle>>
    /\ UNCHANGED illusVars
    /\ UNCHANGED <<splitVars, formatVars>>

\* The rest of handleGenerateAudio: one object URL per blob, or the alert
\* when there is none; then the finally.
AudioFinish ==
    /\ AudioContinuationPending
    /\ LET shown == speechPc = "returned" /\ Len(blobs) > 0
       IN  /\ audioUrls' = IF shown THEN blobs ELSE audioUrls
           /\ audioArticle' = IF shown THEN audioArticle ELSE 0
    /\ generatingAudio' = FALSE
    /\ text' = ""
    /\ speechPc' = "idle"
    /\ segments' = <<>>
    /\ callLog' = <<>>
    /\ results' = <<>>
    /\ arrived' = <<>>
    /\ blobs' = <<>>
    /\ UNCHANGED <<topic, loading, generatedTitle, generatedBody, generatingImages,
                   articlePc, articleOutcome, articleResult, imageRuns,
                   articleNo, shownArticle, imagesArticle>>
    /\ UNCHANGED illusVars
    /\ UNCHANGED <<splitVars, formatVars>>

InitApp ==
    /\ topic \in Topics
    /\ loading = FALSE
    /\ generatedTitle = ""
    /\ generatedBody = ""
    /\ generatingImages = FALSE
    /\ generatingAudio = FALSE
    /\ audioUrls = <<>>
    /\ articlePc = "idle"
    /\ articleOutcome = "none"
    /\ articleResult = ""
    /\ imageRuns = 0
    /\ articleNo = 0
    /\ shownArticle = 0
    /\ imagesArticle = 0
    /\ audioArticle = 0
    /\ IllusIdle
    /\ SpeechIdle
    /\ SplitIdle
    /\ FormatIdle

NextApp ==
    \/ HandleGenerate
    \/ ArticleSettles
    \/ HandleAutoGenerateImages
    \/ AnalysisFails
    \/ AppAnalysisReturns
    \/ ImageSettles
    \/ ImagesFinish

SpecApp == InitApp /\ [][NextApp]_vars

\* ---- sessions that use the audio button too ----

NextAudio ==
    \/ NextApp
    \/ HandleGenerateAudio
    \/ AudioSettles
    \/ SpeechSettles
    \/ AudioFinish

SpecAudio == InitApp /\ [][NextAudio]_vars

-----------------------------------------------------------------------------
(***************************************************************************)
(* Properties of generateArticle and of the component (under SpecApp)      *)
(***************************************************************************)

\* C16: generateArticle never raises, and when the text-generation call
\* fails it returns the fixed placeholder document, an h1 followed by two
\* paragraphs, which its caller shows as title and body.
C16_PlaceholderOnFailure ==
    /\ articlePc # "raised"
    /\ articleOutcome = "rejects" =>
          /\ articlePc = "returned"
          /\ articleResult = FailedArticle
          /\ Len(ParseBody(articleResult)) = 3
          /\ [k \in 1..3 |-> ParseBody(articleResult)[k].tag] = <<"h1", "p", "p">>
          /\ generatedTitle = "Generation failed"
          /\ generatedBody # FailedBody

\* The text-generation call has failed and handleGenerate has shown the
\* placeholder.
C16_Witness ==
    /\ articleOutcome = "rejects"
    /\ articlePc = "returned"
    /\ ~loading
    /\ generatedTitle = "Generation failed"
    /\ Includes(generatedBody, "API quota")

\* C11: the body shown (and copied from the panel) never holds a figure
\* element, also after illustrations have been added to the formatted
\* article.
C11_NoFigureShown == ~Includes(generatedBody, "<figure")

-----------------------------------------------------------------------------
(***************************************************************************)
(* Further properties of formatHtmlForWeChat (checked under SpecFormat)    *)
(***************************************************************************)

\* The elements of nodes and the elements inside them.
RECURSIVE AllElements(_)
AllElements(nodes) ==
    UNION {{nodes[k]} \cup AllElements(nodes[k].kids) :
             k \in {i \in 1..Len(nodes) : IsElement(nodes[i])}}

HasBoxSizing(node) ==
    \E k \in 1..Len(StyleOf(node)) :
        /\ StyleOf(node)[k].prop = "box-sizing"
        /\ StyleOf(node)[k].value = "border-box"

\* C21: every element of the output of formatHtmlForWeChat, whatever its
\* tag, has the declaration box-sizing: border-box in its inline style.
C21_BoxSizingEverywhere ==
    fmtPc = "once" =>
        \A el \in AllElements(ParseBody(formattedOnce)) : HasBoxSizing(el)

-----------------------------------------------------------------------------
(***************************************************************************)
(* Further properties of addIllustrationsToArticle                         *)
(***************************************************************************)

\* The plans before the k-th whose fragment has been placed.
PlacedBefore(k) == {j \in 1..(k - 1) : planLog[j] \in PlacedFates}

\* C22: the plans are processed one after another in the order returned.
\* When the image call of a plan settles, every plan before it has been
\* processed, the document searched holds the fragment of every earlier plan
\* that was placed, the loop moves to the next plan, and a placement changes
\* that document, so that no two placements start from the same document.
C22_OneAfterAnother ==
    [][ illusPc = "imaging" =>
          /\ planIdx = Len(planLog) + 1
          /\ \A j \in PlacedBefore(planIdx) : PayloadCount(updatedHtml, j) = 1
          /\ PayloadCount(updatedHtml, planIdx) = 0
          /\ planIdx' = planIdx + 1
          /\ IF planLog'[planIdx] \in PlacedFates
             THEN /\ updatedHtml' # updatedHtml
                  /\ Len(updatedHtml') = Len(updatedHtml) + Len(ImgTag(Base64Of(planIdx)))
                  /\ \A j \in PlacedBefore(planIdx) \cup {planIdx} :
                        PayloadCount(updatedHtml', j) = 1
             ELSE updatedHtml' = updatedHtml ]_vars

\* Three plans have been placed one after the other, the second and the
\* third on a document that held the fragments before them.
C22_Witness ==
    /\ illusPc = "returned"
    /\ Len(planLog) = 3
    /\ \A j \in 1..3 : planLog[j] \in PlacedFates /\ PayloadCount(updatedHtml, j) = 1
    /\ planLog[2] # planLog[3]
    /\ FragmentCount(updatedHtml) = 3

\* The elements of out are those of orig, tag for tag, with p in the place
\* of every figure; a figure with an img among its children has become a p
\* with the container style.
RECURSIVE FiguresFlattened(_, _)
FiguresFlattened(orig, out) ==
    LET o == ElementsOf(orig)
        f == ElementsOf(out)
    IN  /\ Len(o) = Len(f)
        /\ \A k \in 1..Len(o) :
             /\ f[k].tag = IF o[k].tag = "figure" THEN "p" ELSE o[k].tag
             /\ (o[k].tag = "figure" /\ \E c \in 1..Len(o[k].kids) : o[k].kids[c].tag = "img")
                  => StyleOf(f[k]) = ParseStyle(FigureStyle)
             /\ FiguresFlattened(o[k].kids, f[k].kids)

\* C23: the output of formatHtmlForWeChat holds no "<figure" and no
\* "</figure>"; every figure of the input stands in the output as a p, and a
\* figure that directly contains an img carries the container style.
C23_FiguresBecomeParagraphs ==
    fmtPc = "once" =>
        /\ ~Includes(formattedOnce, "<figure")
        /\ ~Includes(formattedOnce, "</figure>")
        /\ FiguresFlattened(ParseBody(fmtHtml), ParseBody(formattedOnce)[1].kids)

\* A document of a figure without image and a figure with one has been
\* formatted: both are paragraphs, the second with the container style.
C23_Witness ==
    /\ fmtPc = "once"
    /\ Occurrences(fmtHtml, "<figure") = 2
    /\ Includes(fmtHtml, "<figure><span>")
    /\ Includes(fmtHtml, "<img src=\"data:")
    /\ Occurrences(formattedOnce, "<p style=\"") = 2
    /\ Occurrences(formattedOnce, "<p style=\"" \o FigureStyle) = 1

-----------------------------------------------------------------------------
(***************************************************************************)
(* One call of addIllustrationsToArticle and one call of generateSpeech in *)
(* flight together: how often each collaborator is called                  *)
(***************************************************************************)

\* Most sentences of the text spoken in these runs.
CallsMaxChunks == 2

CallsTexts == {LongText(n) : n \in 0..CallsMaxChunks} \cup {" \n "}

InitCalls ==
    /\ articleHtml = ArticleTwoParagraphs
    /\ imageCount = 1
    /\ illusPc = "planning"
    /\ plans = <<>>
    /\ planIdx = 0
    /\ updatedHtml = ""
    /\ planLog = <<>>
    /\ lastOutcome = "none"
    /\ text \in CallsTexts
    /\ speechPc = "start"
    /\ segments = <<>>
    /\ callLog = <<>>
    /\ results = <<>>
    /\ arrived = <<>>
    /\ blobs = <<>>
    /\ SplitIdle
    /\ FormatIdle
    /\ AppIdle

NextCalls ==
    \/ AnalysisFails
    \/ AppAnalysisReturns
    \/ ImageSettles
    \/ SpeechStart
    \/ AudioSettles
    \/ SpeechSettles

SpecCalls == InitCalls /\ [][NextCalls]_vars

\* Planning calls issued so far by the call of addIllustrationsToArticle:
\* one is issued on entry, and one more by any step that goes back to
\* awaiting the planning response.
PlanningCallInFlight == illusPc = "planning"

\* Image calls issued so far: the settled ones are logged, one more is in
\* flight while the loop awaits.
ImageCalls == Len(planLog) + (IF illusPc = "imaging" THEN 1 ELSE 0)

\* Segment i has an audio call that settled.
AudioSettled(i) == callLog[i] \in AudioOutcomes

\* C24: no collaborator call is repeated. The planning call is issued once,
\* on entry, and never again; the image calls issued are one for each plan the
\* loop has reached, also after a call that failed; and an audio call that
\* settled, with audio or with a failure, is never issued again for its
\* segment: a segment has one promise, settled once.
C24_NoRetry ==
    /\ [](/\ illusPc # "idle"
          /\ illusPc = "imaging" => ImageCalls = planIdx /\ planIdx <= Len(plans)
          /\ illusPc = "returned" => ImageCalls = Len(plans)
          /\ illusPc = "raised" => ImageCalls = 0
          /\ speechPc \in {"calling", "returned"} =>
                /\ Len(callLog) = Len(segments)
                /\ Len(results) = Len(segments))
    /\ [][/\ ~PlanningCallInFlight => ~PlanningCallInFlight'
          /\ lastOutcome # "none" => lastOutcome' # "none"
          /\ speechPc = "calling" =>
                \A i \in 1..Len(segments) :
                   /\ callLog[i] # "pending" =>
                         callLog'[i] = callLog[i] /\ results'[i] = results[i]
                   /\ callLog[i] = "skipped" <=> Trim(segments[i]) = ""]_vars

\* Both calls have returned after an image call and an audio call failed: the
\* log holds one entry per plan and the failed segment has no blob.
C24_Witness ==
    /\ illusPc = "returned"
    /\ Len(plans) = 2
    /\ planLog[1] = "noimage"
    /\ planLog[2] \in PlacedFates
    /\ speechPc = "returned"
    /\ Len(segments) = 2
    /\ callLog[1] = "throws"
    /\ callLog[2] = "audio"
    /\ Len(blobs) = 1

-----------------------------------------------------------------------------
(***************************************************************************)
(* Handlers of the component that overlap in time                          *)
(***************************************************************************)

\* The number of the most recently generated article: the one requested
\* last, or the one before it while that request is still in flight.
LatestGenerated == IF loading THEN articleNo - 1 ELSE articleNo

\* handleAutoGenerateImages shows the document its call returned.
EnrichedBodyShown == generatingImages /\ ~generatingImages' /\ illusPc = "returned"

\* C25: whenever an image run shows its result, the body shown derives from
\* the most recently generated article: a run started on an earlier article
\* never replaces an article that handleGenerate produced in the meantime.
C25_EnrichmentIsFresh ==
    [][EnrichedBodyShown => shownArticle' = LatestGenerated']_vars

\* C26: the download links shown with an article were generated from that
\* article: once handleGenerate has cleared audioUrls for a new article, an
\* audio run started on the previous article does not fill them again.
C26_AudioOfShownArticle ==
    (generatedBody # "" /\ audioUrls # <<>>) => audioArticle = shownArticle

-----------------------------------------------------------------------------
(***************************************************************************)
(* addIllustrationsToArticle on snippets with a dollar sign or with other  *)
(* letter case than the article                                            *)
(***************************************************************************)

\* An article with a dollar amount in a heading and in a paragraph.
ArticleDollars == "<h2>Win $$ now</h2><p>Alpha beta gamma. Pay $$ later.</p>"

\* Snippets of the heading and of the paragraph, as the article has them
\* and in other letter case.
DollarSnippets == {"Win $$ now", "Pay $$ later.", "ALPHA BETA", "win $$ NOW"}

DollarPlanChoices ==
    {[isCover |-> TRUE]}
    \cup {[isCover |-> FALSE, contextSnippet |-> c] : c \in DollarSnippets}

DollarPlanLists == UNION {[1..n -> DollarPlanChoices] : n \in 0..LadderMaxPlans}

DollarAnalysisReturns == PlansArrive(DollarPlanLists)

InitDollar ==
    /\ articleHtml = ArticleDollars
    /\ imageCount \in ImageCounts
    /\ illusPc = "planning"
    /\ plans = <<>>
    /\ planIdx = 0
    /\ updatedHtml = ""
    /\ planLog = <<>>
    /\ lastOutcome = "none"
    /\ SpeechIdle
    /\ SplitIdle
    /\ FormatIdle
    /\ AppIdle

NextDollar == AnalysisFails \/ DollarAnalysisReturns \/ ImageSettles

SpecDollar == InitDollar /\ [][NextDollar]_vars

\* doc without the fragments of the plans: the fragments are deleted one
\* after the other, also a fragment that stood inside another one, until
\* none is left; k is the plan whose fragment is looked for next.
RECURSIVE WithoutFragments(_, _)
WithoutFragments(doc, k) ==
    IF k > Len(plans) THEN doc
    ELSE Then(IndexOf(doc, ImgTag(Base64Of(k))), LAMBDA i :
            IF i = 0 THEN WithoutFragments(doc, k + 1)
            ELSE WithoutFragments(
                    SubSeq(doc, 1, i - 1) \o From(doc, i + Len(ImgTag(Base64Of(k)))), 1))

\* C27: the document only gains fragments: while the plans are processed
\* and at the return, the document without the fragments is the article
\* passed in, character for character.
C27_InsertOnly ==
    illusPc \in {"imaging", "returned"} => WithoutFragments(updatedHtml, 1) = articleHtml

-----------------------------------------------------------------------------
\* C28: only the first plan of the list is placed by prepending: no later
\* plan is logged as cover, and the document never starts with the fragment
\* of a later plan, in front of the fragments of the plans before it.
C28_OnlyFirstPlanPrepended ==
    \A k \in 2..Len(planLog) :
        /\ planLog[k] # "cover"
        /\ ~StartsWith(updatedHtml, ImgTag(Base64Of(k)))

-----------------------------------------------------------------------------
(***************************************************************************)
(* addIllustrationsToArticle on snippets of 15 characters and fewer        *)
(***************************************************************************)

\* Snippets of 10, 14 and 15 characters that are not in the articles, a
\* snippet of 12 characters that stands in the heading of the styled article,
\* one of 15 characters that stands in the two-paragraph article inside a
\* word, and the snippet of 25 characters whose first 15 stand there.
ShortSnippets ==
    {"Alpha bets", "Alpha beta gum", "Alpha beta gamo", "center stage",
     "lpha beta gamma", SnippetPrefix15}

ShortPlanLists ==
    UNION {[1..n -> {[isCover |-> FALSE, contextSnippet |-> c] : c \in ShortSnippets}] :
              n \in 0..LadderMaxPlans}

ShortAnalysisReturns == PlansArrive(ShortPlanLists)

NextShort == AnalysisFails \/ ShortAnalysisReturns \/ ImageSettles

SpecShort == InitIllus /\ [][NextShort]_vars

\* The first two steps of the ladder do not find the current snippet.
ThirdStepReached ==
    /\ InlineImageArrives
    /\ ParagraphEnds(updatedHtml, CurrentSnippet) = {}
    /\ ~Includes(updatedHtml, CurrentSnippet)

\* C29: the third step places a fragment only for a snippet of more than 15
\* characters, after the first occurrence of its first 15 characters. When
\* the first two steps fail, a snippet of 15 characters or fewer leaves the
\* document as it is, and the document changes exactly when the prefix
\* occurs in it: the test of the prefix length decides nothing.
C29_PrefixOnlyForLongSnippets ==
    [][ InlineImageArrives =>
          /\ planLog'[Len(planLog')] = "prefix" =>
                /\ Len(CurrentSnippet) > 15
                /\ Len(SnippetPrefix(15)) = 15
                /\ updatedHtml' =
                     InsertAfter(updatedHtml,
                                 IndexOf(updatedHtml, SnippetPrefix(15)) + 14,
                                 ImgTag(Base64Of(planIdx)))
          /\ ThirdStepReached =>
                /\ Len(CurrentSnippet) <= 15 =>
                      updatedHtml' = updatedHtml /\ planLog'[Len(planLog')] = "notfound"
                /\ updatedHtml' # updatedHtml <=> Includes(updatedHtml, SnippetPrefix(15)) ]_vars

\* A call has returned in which a snippet of 14 characters went through the
\* three steps without a match and the snippet of 25 characters was placed
\* by its prefix.
C29_Witness ==
    /\ illusPc = "returned"
    /\ articleHtml = ArticleTwoParagraphs
    /\ Len(plans) = 2
    /\ plans[1].contextSnippet = "Alpha beta gum"
    /\ plans[2].contextSnippet = SnippetPrefix15
    /\ planLog = <<"notfound", "prefix">>
    /\ updatedHtml = "<p>Alpha beta gamm" \o ImgTag(Base64Of(2))
                     \o "a.</p><p>Delta epsilon.</p>"

-----------------------------------------------------------------------------
(***************************************************************************)
(* The three handlers of the component with every collaborator call        *)
(* settling: the busy flags                                                *)
(***************************************************************************)

\* The text-generation call returns the first article or rejects; the
\* planning call fails or returns a cover plan.
BusyArticleOutcomes ==
    {[kind |-> "text", text |-> "<h1>Cats</h1><p>Alpha beta gamma.</p><p>Delta epsilon.</p>"],
     [kind |-> "rejects", text |-> ""]}

BusyArticleSettles == ArticleArrives(BusyArticleOutcomes)

BusyAnalysisReturns == PlansArrive({<<>>, <<[isCover |-> TRUE]>>})

InitBusy == InitApp /\ topic = "Cats"

NextBusy ==
    \/ HandleGenerate
    \/ BusyArticleSettles
    \/ HandleAutoGenerateImages
    \/ AnalysisFails
    \/ BusyAnalysisReturns
    \/ ImageSettles
    \/ ImagesFinish
    \/ HandleGenerateAudio
    \/ AudioSettles
    \/ SpeechSettles
    \/ AudioFinish

\* The response of the text-generation call can be handled: no handler
\* resumed before it is waiting to run. It is ENABLED <<BusyArticleSettles>>_vars.
ArticleCanSettle == articlePc = "calling" /\ ~AnyContinuationPending

\* Every collaborator call settles, and a promise that has settled resumes
\* the handler awaiting it; the clicks of the user are not required. The
\* first conjunct is SF_vars(BusyArticleSettles): a response is not lost
\* while a resumed handler runs first.
BusyFairness ==
    /\ (<>[]~ArticleCanSettle) \/ ([]<><<BusyArticleSettles>>_vars)
    /\ WF_vars(AnalysisFails \/ BusyAnalysisReturns)
    /\ WF_vars(ImageSettles)
    /\ WF_vars(ImagesFinish)
    /\ WF_vars(AudioSettles)
    /\ WF_vars(SpeechSettles)
    /\ WF_vars(AudioFinish)

SpecBusy == InitBusy /\ [][NextBusy]_vars /\ BusyFairness

\* A step that starts a run of a handler.
GenerateStarts == articleNo' = articleNo + 1
ImagesStart == imageRuns' = imageRuns + 1
AudioStarts == speechPc # "calling" /\ speechPc' = "calling"

=============================================================================
